---- MODULE Spec2Model ----
(***************************************************************************)
(* Meeting scheduling engine of the repository: the procedural scheduler   *)
(* npt_scheduler.py (capacity ledger, huddle distribution, individual      *)
(* meetings) and the class based schedulers meeting_scheduler.py and       *)
(* meeting_scheduler_final.py.                                             *)
(*                                                                         *)
(* Times are minutes; a datetime is Date * 1440 + minutes after midnight.  *)
(* The ledger columns NPT_Count and Revised_Staffing_heatmap are kept in   *)
(* thirtieths (the Python value times 30), so that duration / 30.0 is      *)
(* exact: a meeting of d minutes adds d to NPT_Count.                      *)
(***************************************************************************)
EXTENDS Integers, Sequences, FiniteSets, TLC

VARIABLES
    variant,            \* which script of the repository runs
    assoc_df,           \* Associate_Roster rows
    manager_df,         \* Manager_Roster rows
    meetings,           \* Constraint rows (meeting definitions)
    manager_list,       \* iteration order of set(manager names)
    heatmap_df,         \* Schedule_heatmap rows with NPT_Count / Revised
    assoc_schedules,    \* npt: row index -> dict meeting name -> start
    manager_schedules,  \* npt: manager name -> list of mirrored meetings
    unscheduled,        \* list of unscheduled entries (all variants)
    blocked_by,         \* per unscheduled entry: what stopped its candidates
    commits,            \* npt: the commits in order, with the ledger key used
    scheduled_meetings, \* classes: associate row -> list of meeting_info
    manager_meetings,   \* classes: manager row label -> list of meeting_info
    weekly_scheduled_associates, \* final: names that got a weekly meeting
    team_huddle_stats,  \* classes: per group first / second / total counts
    schedule_heatmap,   \* classes: Schedule_heatmap rows, NPT Count / Revised Staffing
    phase,              \* position of the run
    hpos,               \* npt: index into the huddle work list
    ai, mi, ci,         \* associate row, meeting row, candidate position
    last,               \* outcome of the last step (branch taken)
    reservations        \* reservations in progress on one ledger key, step by step

vars == <<variant, assoc_df, manager_df, meetings, manager_list, heatmap_df,
          assoc_schedules, manager_schedules, unscheduled, blocked_by, commits,
          scheduled_meetings,
          manager_meetings, weekly_scheduled_associates, team_huddle_stats,
          schedule_heatmap, phase, hpos, ai, mi, ci, last, reservations>>

-----------------------------------------------------------------------------
(* Bounds of the model *)

NumAssoc == 2
MaxGroupSize == 12
MaxShuffledGroup == 6

(* Program constants *)

DayMinutes == 1440
HalfHour == 30
DurationHours == 8
team_huddle_name == "Team_Huddle"

(* Missing values: NaN for a missing cell, None for Python's None, NaT for  *)
(* a missing date or time,                                                 *)
(* NoKey for "no ledger key found".                                        *)
NaN == "NaN"
None == "None"
NaT == -1
NoManager == -1
NoKey == <<>>

-----------------------------------------------------------------------------
(* Generic helpers *)

Range(s) == {s[i] : i \in DOMAIN s}

Max(a, b) == IF a >= b THEN a ELSE b
Min(a, b) == IF a <= b THEN a ELSE b

RECURSIVE Flatten(_)
Flatten(ss) == IF ss = <<>> THEN <<>> ELSE Head(ss) \o Flatten(Tail(ss))

Indices(s) == [i \in 1..Len(s) |-> i]

(* str.lower() on the meeting names that occur *)
Lower(name) ==
    CASE name = "Team_Huddle" -> "team_huddle"
      [] name = "team_huddle" -> "team_huddle"
      [] name = "Group_Huddle" -> "group_huddle"
      [] name = "One-2-One" -> "one-2-one"
      [] name = "Coaching" -> "coaching"
      [] name = "Group_Training" -> "group_training"
      [] name = "Group Meeting" -> "group meeting"
      [] OTHER -> name

-----------------------------------------------------------------------------
(* npt_scheduler.py: time helpers *)

floor_to_30(dt) == dt - (dt % HalfHour)

add_minutes(t, mins) == t + mins

to_datetime_on_date(date_val, time_val) ==
    date_val * DayMinutes + (IF time_val = NaT THEN 0 ELSE time_val)

(* strftime("%H:%M") of a datetime: the time of day *)
HHMM(dt) == dt % DayMinutes

-----------------------------------------------------------------------------
(* npt_scheduler.py: capacity ledger (Schedule_heatmap) *)

KeyOf(r) == <<r.Date, r.Interval, r.Skill>>

InHeatmapIndex(hm, key) == \E i \in DOMAIN hm : KeyOf(hm[i]) = key

(* heatmap_index[key]: a later row with the same key overwrites an earlier one *)
heatmap_index(hm, key) ==
    CHOOSE i \in DOMAIN hm :
        /\ KeyOf(hm[i]) = key
        /\ \A j \in DOMAIN hm : KeyOf(hm[j]) = key => j <= i

Revised(r) == (r.Scheduled * HalfHour - r.NPT_Count) - r.Requirement * HalfHour

(* an add that leaves the stored revised staffing as it was *)
UpdateNoRecompute(hm, date_obj, interval_str, skill, added_meeting_minutes) ==
    LET key == <<date_obj, interval_str, skill>> IN
    IF ~InHeatmapIndex(hm, key) THEN hm
    ELSE [hm EXCEPT ![heatmap_index(hm, key)].NPT_Count = @ + added_meeting_minutes]

update_heatmap_for_interval(hm, date_obj, interval_str, skill, added_meeting_minutes) ==
    LET key == <<date_obj, interval_str, skill>> IN
    IF ~InHeatmapIndex(hm, key) THEN hm
    ELSE LET idx == heatmap_index(hm, key)
             r1  == [hm[idx] EXCEPT !.NPT_Count = @ + added_meeting_minutes]
         IN [hm EXCEPT ![idx] = [r1 EXCEPT !.Revised_Staffing_heatmap = Revised(r1)]]

RollbackNoRecompute(hm, date_obj, interval_str, skill, removed_meeting_minutes) ==
    LET key == <<date_obj, interval_str, skill>> IN
    IF ~InHeatmapIndex(hm, key) THEN hm
    ELSE [hm EXCEPT ![heatmap_index(hm, key)].NPT_Count = @ - removed_meeting_minutes]

(* a rollback that removes nothing *)
RollbackSkipped(hm, date_obj, interval_str, skill, removed_meeting_minutes) == hm

rollback_heatmap_for_interval(hm, date_obj, interval_str, skill, removed_meeting_minutes) ==
    LET key == <<date_obj, interval_str, skill>> IN
    IF ~InHeatmapIndex(hm, key) THEN hm
    ELSE LET idx == heatmap_index(hm, key)
             r1  == [hm[idx] EXCEPT !.NPT_Count = @ - removed_meeting_minutes]
         IN [hm EXCEPT ![idx] = [r1 EXCEPT !.Revised_Staffing_heatmap = Revised(r1)]]

(* f"{cand:%H:%M}-{cand+30min:%H:%M}" and f"{cand:%H:%M}" *)
IntervalStr(cand) == <<HHMM(cand), HHMM(cand + 30)>>
StartStr(cand) == <<HHMM(cand)>>

possible_keys(date_obj, cand, skill) ==
    << <<date_obj, IntervalStr(cand), skill>>, <<date_obj, StartStr(cand), skill>> >>

(* a lookup that gives up after the two candidate keys *)
LookupTwoKeysOnly(hm, date_obj, cand, skill) ==
    LET pk == possible_keys(date_obj, cand, skill) IN
    IF InHeatmapIndex(hm, pk[1]) THEN pk[1]
    ELSE IF InHeatmapIndex(hm, pk[2]) THEN pk[2]
    ELSE NoKey

(* The key the ledger check of a candidate uses: the two candidate keys in *)
(* order, then the first row of the same Date and Skill; NoKey when there   *)
(* is none.                                                                 *)
ok_heatmap_idx(hm, date_obj, cand, skill) ==
    LET pk == possible_keys(date_obj, cand, skill)
        same == {i \in DOMAIN hm : hm[i].Date = date_obj /\ hm[i].Skill = skill}
    IN IF InHeatmapIndex(hm, pk[1]) THEN pk[1]
       ELSE IF InHeatmapIndex(hm, pk[2]) THEN pk[2]
       ELSE IF same # {} THEN KeyOf(hm[CHOOSE i \in same : \A j \in same : i <= j])
       ELSE NoKey

(* initial_revised_buffer <= threshold: cannot schedule here *)
PreCheckRejects(row, threshold) == row.Scheduled - row.Requirement <= threshold

(* new_val < threshold after the provisional add *)
PostCheckStrict(row, threshold) ==
    row.Revised_Staffing_heatmap <= threshold * HalfHour

(* a post-check that forgets the load: compares the unloaded buffer *)
PostCheckStale(row, threshold) ==
    (row.Scheduled - row.Requirement) * HalfHour < threshold * HalfHour

PostCheckRejects(row, threshold) ==
    row.Revised_Staffing_heatmap < threshold * HalfHour

(* Pre-check, provisional add, post-check and rollback on the cell of key  *)
(* k: branch is "precheck", "postcheck" or "ok"; hm is the ledger left      *)
(* behind.                                                                  *)
TryReserveNoRollback(hm, k, meeting_duration, threshold) ==
    LET idx == heatmap_index(hm, k) IN
    IF PreCheckRejects(hm[idx], threshold) THEN [branch |-> "precheck", hm |-> hm]
    ELSE LET hm1 == update_heatmap_for_interval(hm, k[1], k[2], k[3], meeting_duration) IN
         IF PostCheckRejects(hm1[idx], threshold)
         THEN [branch |-> "postcheck", hm |-> hm1]
         ELSE [branch |-> "ok", hm |-> hm1]

TryReserve(hm, k, meeting_duration, threshold) ==
    LET idx == heatmap_index(hm, k) IN
    IF PreCheckRejects(hm[idx], threshold) THEN [branch |-> "precheck", hm |-> hm]
    ELSE LET hm1 == update_heatmap_for_interval(hm, k[1], k[2], k[3], meeting_duration) IN
         IF PostCheckRejects(hm1[idx], threshold)
         THEN [branch |-> "postcheck",
               hm |-> rollback_heatmap_for_interval(hm1, k[1], k[2], k[3], meeting_duration)]
         ELSE [branch |-> "ok", hm |-> hm1]

(* The ledger part of one candidate: key lookup, then the reservation.      *)
(* branch is "no_key", "precheck", "postcheck" or "ok".                     *)
LedgerStage(hm, date_obj, cand, skill, meeting_duration, threshold) ==
    LET k == ok_heatmap_idx(hm, date_obj, cand, skill) IN
    IF k = NoKey THEN [branch |-> "no_key", hm |-> hm, key |-> NoKey]
    ELSE LET r == TryReserve(hm, k, meeting_duration, threshold)
         IN [branch |-> r.branch, hm |-> r.hm, key |-> k]

-----------------------------------------------------------------------------
(* npt_scheduler.py: candidate starts and manager availability *)

BreakPairs(row) ==
    [i \in DOMAIN row.breaks |->
        <<to_datetime_on_date(row.Date, row.breaks[i][1]),
          to_datetime_on_date(row.Date, row.breaks[i][2])>>]

exclude_periods(row) ==
    LET bp == BreakPairs(row) IN
    [i \in DOMAIN bp |-> <<bp[i][1], IF bp[i][2] < bp[i][1] THEN bp[i][1] + 30 ELSE bp[i][2]>>]

inside_exclude(t, ex) ==
    \E i \in DOMAIN ex :
        \/ (t >= ex[i][1] /\ t < ex[i][2])
        \/ (t + 30 > ex[i][1] /\ t < ex[i][2])

RECURSIVE starts_from(_, _, _)
starts_from(t, shift_end_dt, ex) ==
    IF t + 30 <= shift_end_dt
    THEN (IF inside_exclude(t, ex) THEN <<>> ELSE <<t>>) \o starts_from(t + 30, shift_end_dt, ex)
    ELSE <<>>

assoc_candidates(row) ==
    IF row.Working # 1 THEN <<>>
    ELSE starts_from(floor_to_30(to_datetime_on_date(row.Date, row.Shift_start)),
                     to_datetime_on_date(row.Date, row.Shift_end),
                     exclude_periods(row))

(* not (new_end <= start or cand >= end) *)
Overlaps(s1, e1, s2, e2) == ~(e1 <= s2 \/ s1 >= e2)

BreakClash(row, date_obj, start_dt, duration_mins) ==
    \E i \in DOMAIN row.breaks :
        Overlaps(start_dt, start_dt + duration_mins,
                 to_datetime_on_date(date_obj, row.breaks[i][1]),
                 to_datetime_on_date(date_obj, row.breaks[i][2]))

is_manager_available(manager_name, start_dt, duration_mins, date_obj) ==
    \E i \in DOMAIN manager_df :
        LET r == manager_df[i] IN
        /\ r.AA_Name = manager_name
        /\ (r.Date = NaT \/ r.Date = date_obj)
        /\ r.Working = 1
        /\ start_dt >= to_datetime_on_date(date_obj, r.Shift_start)
        /\ start_dt + duration_mins <= to_datetime_on_date(date_obj, r.Shift_end)
        /\ ~BreakClash(r, date_obj, start_dt, duration_mins)

(* first manager of manager_list that is available, or None *)
FirstAvailableManager(cand, duration_mins, date_obj) ==
    LET ok == {j \in DOMAIN manager_list :
                  is_manager_available(manager_list[j], cand, duration_mins, date_obj)}
    IN IF ok = {} THEN None ELSE manager_list[CHOOSE j \in ok : \A k \in ok : j <= k]

(* aa_to_manager: str(Manager).strip() of the last row of that name *)
aa_to_manager(aa_name) ==
    LET rows == {i \in DOMAIN assoc_df : assoc_df[i].AA_Name = aa_name} IN
    IF rows = {} THEN None
    ELSE LET m == assoc_df[CHOOSE i \in rows : \A j \in rows : j <= i].Manager
         IN IF m = NaN THEN "nan" ELSE m

-----------------------------------------------------------------------------
(* npt_scheduler.py: shift groups and the Team_Huddle split *)

ss_key(row) == HHMM(to_datetime_on_date(row.Date, row.Shift_start))

(* every roster row, whatever its working flag *)
AllRows == Indices(assoc_df)

WorkingRows == SelectSeq(Indices(assoc_df), LAMBDA i : assoc_df[i].Working = 1)

(* shift_groups: ss_key -> row indices, keys in order of first appearance;  *)
(* a group is named by its first row.                                       *)
shift_group_firsts ==
    SelectSeq(WorkingRows,
              LAMBDA i : \A j \in 1..(i - 1) :
                  ~(assoc_df[j].Working = 1 /\ ss_key(assoc_df[j]) = ss_key(assoc_df[i])))

shift_groups(i0) ==
    SelectSeq(WorkingRows, LAMBDA i : ss_key(assoc_df[i]) = ss_key(assoc_df[i0]))

ManagerNames == {manager_df[j].AA_Name : j \in DOMAIN manager_df}

(* round(): to the nearest integer, ties to the even one *)
RoundHalfEven(num, den) ==
    LET q == num \div den
        r == num % den
    IN IF 2 * r < den THEN q
       ELSE IF 2 * r > den THEN q + 1
       ELSE IF q % 2 = 0 THEN q ELSE q + 1

FloorDiv(num, den) == num \div den
CeilDiv(num, den) == (num + den - 1) \div den

(* 70 percent, rounded and not clamped *)
FirstCountSeventy(n) == RoundHalfEven(n * 70, 100)

(* first_count = max(floor(0.5 n), min(ceil(0.6 n), round(0.55 n))) *)
first_count(n) ==
    Max(FloorDiv(n * 5, 10), Min(CeilDiv(n * 6, 10), RoundHalfEven(n * 55, 100)))

(* The huddle work of one group: <<row, interval start, sub-group>> for the *)
(* first sub-group at shift start, then the second 30 minutes later.        *)
GroupHuddleWork(i0) ==
    LET assoc_indices == SelectSeq(shift_groups(i0),
                                   LAMBDA i : assoc_df[i].AA_Name \notin ManagerNames)
    IN IF assoc_indices = <<>> THEN <<>>
       ELSE LET first_idx == assoc_indices[1]
                shift_start_dt == to_datetime_on_date(assoc_df[first_idx].Date,
                                                      assoc_df[first_idx].Shift_start)
                n == Len(assoc_indices)
                fc == first_count(n)
            IN [k \in 1..n |->
                   IF k <= fc THEN <<assoc_indices[k], shift_start_dt, 1>>
                   ELSE <<assoc_indices[k], shift_start_dt + 30, 2>>]

team_meet_def ==
    LET hs == {m \in DOMAIN meetings :
                  Lower(meetings[m].Meeting_Name) = Lower(team_huddle_name)}
    IN IF hs = {} THEN 0 ELSE CHOOSE m \in hs : \A k \in hs : m <= k

huddle_work ==
    IF team_meet_def = 0 THEN <<>>
    ELSE Flatten([g \in DOMAIN shift_group_firsts |-> GroupHuddleWork(shift_group_firsts[g])])

-----------------------------------------------------------------------------
(* npt_scheduler.py: one Team_Huddle attempt (schedule_in_interval, one     *)
(* associate) and one candidate of an individual meeting                    *)

DurationOf(mn) ==
    LET ds == {m \in DOMAIN meetings : meetings[m].Meeting_Name = mn} IN
    IF ds = {} THEN 30 ELSE meetings[CHOOSE m \in ds : \A k \in ds : m <= k].Duration

(* huddle clash check: every existing meeting is taken to last 30 minutes *)
HuddleClash(aidx, cand, meeting_duration) ==
    \E mn \in DOMAIN assoc_schedules[aidx] :
        Overlaps(cand, cand + meeting_duration,
                 assoc_schedules[aidx][mn], assoc_schedules[aidx][mn] + 30)

(* individual meetings: existing meetings last their configured duration *)
Conflict(idx, cand, meeting_duration) ==
    \E mn \in DOMAIN assoc_schedules[idx] :
        Overlaps(cand, cand + meeting_duration,
                 assoc_schedules[idx][mn], assoc_schedules[idx][mn] + DurationOf(mn))

(* The candidate loop of schedule_in_interval for one associate; failed is *)
(* the outcome of the last candidate that was given up.                     *)
RECURSIVE HuddleSearch(_, _, _, _)
HuddleSearch(cs, hm, aidx, failed) ==
    IF cs = <<>>
    THEN [failed EXCEPT !.hm = hm]
    ELSE LET cand == Head(cs)
             hdef == meetings[team_meet_def]
         IN IF HuddleClash(aidx, cand, hdef.Duration)
            THEN HuddleSearch(Tail(cs), hm, aidx,
                              [placed |-> FALSE, cand |-> cand, hm |-> hm, key |-> NoKey,
                               branch |-> "conflict"])
            ELSE LET st == LedgerStage(hm, assoc_df[aidx].Date, cand, assoc_df[aidx].Skill,
                                       hdef.Duration, hdef.NPT_Threshold)
                 IN IF st.branch # "ok"
                    THEN HuddleSearch(Tail(cs), st.hm, aidx,
                                      [placed |-> FALSE, cand |-> cand, hm |-> st.hm,
                                       key |-> st.key, branch |-> st.branch])
                    ELSE [placed |-> TRUE, cand |-> cand, hm |-> st.hm, key |-> st.key,
                          branch |-> "commit"]

schedule_in_interval(aidx, interval_start) ==
    LET cs == SelectSeq(assoc_candidates(assoc_df[aidx]),
                        LAMBDA c : c >= interval_start /\ c < interval_start + 30)
    IN HuddleSearch(cs, heatmap_df, aidx,
                    [placed |-> FALSE, cand |-> NaT, hm |-> heatmap_df, key |-> NoKey,
                     branch |-> "no_candidate"])

(* Manager assignment rules of an individual meeting at one candidate:      *)
(* [skip |-> the candidate is abandoned, mgr |-> assigned manager or None]  *)
AssignManager(aa_name, mdef, cand, date_obj) ==
    IF Lower(mdef.Meeting_Type) = "group meeting"
    THEN IF mdef.Manager_Availability = "yes"
         THEN LET direct == aa_to_manager(aa_name) IN
              [skip |-> FALSE,
               mgr |-> IF direct = None
                       THEN FirstAvailableManager(cand, mdef.Duration, date_obj)
                       ELSE direct]
         ELSE [skip |-> FALSE, mgr |-> FirstAvailableManager(cand, mdef.Duration, date_obj)]
    ELSE IF mdef.Manager_Availability = "yes"
         THEN LET direct_mgr == aa_to_manager(aa_name) IN
              IF direct_mgr # None
                 /\ is_manager_available(direct_mgr, cand, mdef.Duration, date_obj)
              THEN [skip |-> FALSE, mgr |-> direct_mgr]
              ELSE [skip |-> TRUE, mgr |-> None]
         ELSE LET m == FirstAvailableManager(cand, mdef.Duration, date_obj) IN
              [skip |-> m = None, mgr |-> m]

(* One candidate, with a manager check that leaves a reservation behind    *)
(* when it gives the candidate up                                           *)
CandidateOutcomeChargesFirst(idx, mdef, cand) ==
    LET row == assoc_df[idx]
        none == [branch |-> "", hm |-> heatmap_df, key |-> NoKey, mgr |-> None]
        st == LedgerStage(heatmap_df, row.Date, cand, row.Skill,
                          mdef.Duration, mdef.NPT_Threshold)
    IN IF cand + mdef.Duration > to_datetime_on_date(row.Date, row.Shift_end)
       THEN [none EXCEPT !.branch = "shift_end"]
       ELSE IF BreakClash(row, row.Date, cand, mdef.Duration)
       THEN [none EXCEPT !.branch = "break"]
       ELSE IF Conflict(idx, cand, mdef.Duration)
       THEN [none EXCEPT !.branch = "conflict"]
       ELSE LET am == AssignManager(row.AA_Name, mdef, cand, row.Date) IN
            IF am.skip THEN [none EXCEPT !.branch = "manager", !.hm = st.hm]
            ELSE [branch |-> IF st.branch = "ok" THEN "commit" ELSE st.branch,
                  hm |-> st.hm, key |-> st.key, mgr |-> am.mgr]

(* One candidate of the slot search of (row idx, meeting mdef) *)
CandidateOutcome(idx, mdef, cand) ==
    LET row == assoc_df[idx]
        none == [branch |-> "", hm |-> heatmap_df, key |-> NoKey, mgr |-> None]
    IN IF cand + mdef.Duration > to_datetime_on_date(row.Date, row.Shift_end)
       THEN [none EXCEPT !.branch = "shift_end"]
       ELSE IF BreakClash(row, row.Date, cand, mdef.Duration)
       THEN [none EXCEPT !.branch = "break"]
       ELSE IF Conflict(idx, cand, mdef.Duration)
       THEN [none EXCEPT !.branch = "conflict"]
       ELSE LET am == AssignManager(row.AA_Name, mdef, cand, row.Date) IN
            IF am.skip THEN [none EXCEPT !.branch = "manager"]
            ELSE LET st == LedgerStage(heatmap_df, row.Date, cand, row.Skill,
                                       mdef.Duration, mdef.NPT_Threshold)
                 IN [branch |-> IF st.branch = "ok" THEN "commit" ELSE st.branch,
                     hm |-> st.hm, key |-> st.key, mgr |-> am.mgr]

(* what stopped the candidates of (row idx, meeting mdef): the branches    *)
(* the slot search takes over the whole candidate list                      *)
BlockedBy(idx, mdef) ==
    {CandidateOutcome(idx, mdef, cand).branch :
        cand \in Range(assoc_candidates(assoc_df[idx]))}

(* do_attempt: eligibility of (row idx, meeting mdef) by frequency *)
do_attempt(idx, mdef) ==
    LET row == assoc_df[idx]
        freq == mdef.Frequency
    IN IF freq = "daily" THEN TRUE
       ELSE IF freq = "weekly"
       THEN LET peers == {i \in DOMAIN assoc_df :
                             /\ assoc_df[i].Date = row.Date
                             /\ assoc_df[i].Working = 1
                             /\ ss_key(assoc_df[i]) = ss_key(row)}
                total_peers == Cardinality(peers)
                already == Cardinality({i \in peers :
                               mdef.Meeting_Name \in DOMAIN assoc_schedules[i]})
            IN IF total_peers = 0 THEN TRUE
               ELSE already + 1 <= FloorDiv(total_peers * 25, 100)
       ELSE TRUE

-----------------------------------------------------------------------------
(* Inputs of a run: the sheets of the workbook *)

AAName ==
    <<"AA1", "AA2", "AA3", "AA4", "AA5", "AA6", "AA7", "AA8", "AA9", "AA10",
      "AA11", "AA12", "AA13", "AA14">>

BreakChoices == { <<>>, << <<570, 600>> >> }

AssocRow(i, br, w, mg) ==
    [AA_Name |-> AAName[i], Date |-> 1, Skill |-> "S1", site |-> "S1",
     Shift_start |-> 540, Shift_end |-> 690, breaks |-> br, Working |-> w,
     Manager |-> mg]

AssocChoices(i) ==
    {AssocRow(i, br, w, mg) :
        br \in (IF i = 1 THEN BreakChoices ELSE {<<>>}),
        w \in (IF i = NumAssoc THEN {0, 1} ELSE {1}),
        mg \in (IF i = 1 THEN {"TM1", NaN} ELSE {"TM1"})}

Rosters ==
    {f \in [1..NumAssoc -> UNION {AssocChoices(i) : i \in 1..NumAssoc}] :
        \A i \in 1..NumAssoc : f[i] \in AssocChoices(i)}

ManagerRosters ==
    { << [AA_Name |-> "TM1", Date |-> 1, Working |-> w, Shift_start |-> 540,
          Shift_end |-> 690, site |-> st, breaks |-> <<>>],
         [AA_Name |-> "TM2", Date |-> 1, Working |-> 1, Shift_start |-> 600,
          Shift_end |-> 690, site |-> "S1", breaks |-> <<>>] >> :
        w \in {0, 1}, st \in {"S1", "S2"} }

Huddle(d) ==
    [Meeting_Name |-> "Team_Huddle", Frequency |-> "daily",
     Meeting_Type |-> "Group Meeting", Manager_Availability |-> "no",
     Duration |-> d, NPT_Threshold |-> 0]

OneToOne ==
    [Meeting_Name |-> "One-2-One", Frequency |-> "daily",
     Meeting_Type |-> "One-2-One", Manager_Availability |-> "yes",
     Duration |-> 30, NPT_Threshold |-> 2]

Coaching ==
    [Meeting_Name |-> "Coaching", Frequency |-> "daily",
     Meeting_Type |-> "One-2-One", Manager_Availability |-> "no",
     Duration |-> 60, NPT_Threshold |-> 0]

GroupTraining ==
    [Meeting_Name |-> "Group_Training", Frequency |-> "daily",
     Meeting_Type |-> "Group Meeting", Manager_Availability |-> "yes",
     Duration |-> 30, NPT_Threshold |-> 0]

WeeklyReview ==
    [Meeting_Name |-> "Weekly_Review", Frequency |-> "weekly",
     Meeting_Type |-> "One-2-One", Manager_Availability |-> "no",
     Duration |-> 30, NPT_Threshold |-> 0]

(* a frequency cell that is none of daily, weekly, monthly *)
QuarterlyReview ==
    [Meeting_Name |-> "Quarterly_Review", Frequency |-> "quarterly",
     Meeting_Type |-> "One-2-One", Manager_Availability |-> "no",
     Duration |-> 30, NPT_Threshold |-> 0]

MeetingLists ==
    {<<Huddle(d)>> \o tl :
        d \in {15, 45},
        tl \in {<<OneToOne>>, <<Coaching>>, <<GroupTraining>>,
                <<GroupTraining, OneToOne>>, <<OneToOne, Coaching>>,
                <<WeeklyReview>>, <<QuarterlyReview>>,
                <<WeeklyReview, OneToOne>>}}

SlotStarts == <<540, 570, 600, 630, 660>>

HeatRow(interval, skill, sched, req) ==
    [Date |-> 1, Interval |-> interval, Skill |-> skill, Scheduled |-> sched,
     Requirement |-> req, NPT_Count |-> 0,
     Revised_Staffing_heatmap |-> (sched * HalfHour - 0) - req * HalfHour]

Heatmaps ==
    { [i \in DOMAIN SlotStarts |-> HeatRow(IntervalStr(SlotStarts[i]), "S1", 5, 2)],
      [i \in DOMAIN SlotStarts |-> HeatRow(StartStr(SlotStarts[i]), "S1", 5, 4)],
      << HeatRow(IntervalStr(540), "S1", 5, 2) >>,
      [i \in DOMAIN SlotStarts |-> HeatRow(IntervalStr(SlotStarts[i]), "S2", 5, 2)] }

(* all orders of the elements of S, as sequences *)
RECURSIVE Perms(_)
Perms(S) ==
    IF S = {} THEN {<<>>}
    ELSE UNION {{<<x>> \o p : p \in Perms(S \ {x})} : x \in S}

(* a row of the Schedule_heatmap sheet read by the class based schedulers,  *)
(* its Interval the start of a 30 minute interval                           *)
ScheduleRow(interval, skill, sched, req) ==
    [Date |-> 1, Skill |-> skill, Interval |-> interval, Scheduled |-> sched,
     Requirement |-> req, NPT_Count |-> 0, Revised_Staffing |-> 0]

NoStep ==
    [kind |-> "init", aidx |-> 0, mn |-> "", cand |-> NaT, branch |-> "",
     key |-> NoKey, mgr |-> None]

(* the run of a script makes its reservations one at a time, each in one step *)
NoReservations == [mode |-> "serial", att |-> <<>>]

(* The state of a run before its first step *)
InitRun ==
    /\ commits = <<>>
    /\ scheduled_meetings = [i \in DOMAIN assoc_df |-> <<>>]
    /\ manager_meetings = [j \in 0..(Len(manager_df) - 1) |-> <<>>]
    /\ weekly_scheduled_associates = {}
    /\ team_huddle_stats = <<>>
    /\ schedule_heatmap =
          IF variant = "npt" THEN <<>>
          ELSE [i \in DOMAIN SlotStarts |-> ScheduleRow(SlotStarts[i], "S1", 5, 2)]
    /\ assoc_schedules = [i \in DOMAIN assoc_df |-> <<>>]
    /\ manager_schedules = [m \in {"TM1", "TM2", "nan"} |-> <<>>]
    /\ unscheduled = <<>>
    /\ blocked_by = <<>>
    /\ phase = "huddle"
    /\ hpos = 1
    /\ ai = 1 /\ mi = 1 /\ ci = 0
    /\ last = NoStep

Init ==
    /\ variant \in {"npt", "ms", "final"}
    /\ assoc_df \in Rosters
    /\ manager_df \in ManagerRosters
    /\ meetings \in MeetingLists
    /\ heatmap_df \in (IF variant = "npt" THEN Heatmaps
                       ELSE {[i \in DOMAIN SlotStarts |->
                                HeatRow(IntervalStr(SlotStarts[i]), "S1", 5, 2)]})
    /\ manager_list \in (IF variant = "npt"
                         THEN Perms({manager_df[j].AA_Name : j \in DOMAIN manager_df})
                         ELSE {[j \in DOMAIN manager_df |-> manager_df[j].AA_Name]})
    /\ InitRun
    /\ reservations = NoReservations

(* Runs of the huddle phase on one shift group of every size *)
InitSplit ==
    /\ variant \in {"npt", "ms", "final"}
    /\ \E n \in 1..(IF variant = "npt" THEN MaxGroupSize ELSE MaxShuffledGroup) :
          assoc_df = [i \in 1..n |-> AssocRow(i, <<>>, 1, "TM1")]
    /\ manager_df \in {r \in ManagerRosters : r[1].Working = 1 /\ r[1].site = "S1"}
    /\ meetings = <<Huddle(15), OneToOne>>
    /\ heatmap_df = [i \in DOMAIN SlotStarts |->
                       HeatRow(IntervalStr(SlotStarts[i]), "S1", 5, 2)]
    /\ manager_list = [j \in DOMAIN manager_df |-> manager_df[j].AA_Name]
    /\ InitRun
    /\ reservations = NoReservations

inputs == <<variant, assoc_df, manager_df, meetings, manager_list>>

npt_state == <<assoc_schedules, manager_schedules, commits>>

class_state == <<scheduled_meetings, manager_meetings, weekly_scheduled_associates,
                 team_huddle_stats, schedule_heatmap>>

-----------------------------------------------------------------------------
(* npt_scheduler.py: the run *)

(* a mirror that records a default half hour instead of the duration *)
MirrorHalfHour(date_obj, cand, dur, mn, aa) ==
    [date |-> date_obj, start |-> cand, duration |-> HalfHour, meeting_name |-> mn,
     associate |-> aa]

Mirror(date_obj, cand, dur, mn, aa) ==
    [date |-> date_obj, start |-> cand, duration |-> dur, meeting_name |-> mn,
     associate |-> aa]

Commit(aidx, mdef, cand, key, mgr) ==
    [aidx |-> aidx, mn |-> mdef.Meeting_Name, start |-> cand,
     duration |-> mdef.Duration, threshold |-> mdef.NPT_Threshold, key |-> key,
     mgr |-> mgr, requires_direct |-> mdef.Manager_Availability = "yes"]

(* One associate of one sub-group in schedule_in_interval *)
NptHuddle ==
    /\ variant = "npt" /\ phase = "huddle" /\ hpos <= Len(huddle_work)
    /\ LET aidx == huddle_work[hpos][1]
           res  == schedule_in_interval(aidx, huddle_work[hpos][2])
           hdef == meetings[team_meet_def]
           row  == assoc_df[aidx]
           mgr  == IF res.placed
                   THEN FirstAvailableManager(res.cand, hdef.Duration, row.Date)
                   ELSE None
       IN /\ heatmap_df' = res.hm
          /\ assoc_schedules' =
                IF res.placed
                THEN [assoc_schedules EXCEPT
                         ![aidx] = (hdef.Meeting_Name :> res.cand) @@ @]
                ELSE assoc_schedules
          /\ manager_schedules' =
                IF mgr # None
                THEN [manager_schedules EXCEPT
                         ![mgr] = Append(@, Mirror(row.Date, res.cand, hdef.Duration,
                                                   hdef.Meeting_Name, row.AA_Name))]
                ELSE manager_schedules
          /\ commits' =
                IF res.placed
                THEN Append(commits, Commit(aidx, hdef, res.cand, res.key, mgr))
                ELSE commits
          /\ unscheduled' =
                IF res.placed THEN unscheduled
                ELSE Append(unscheduled,
                            [AA_Name |-> row.AA_Name, Date |-> row.Date,
                             Meeting_Name |-> hdef.Meeting_Name,
                             Reason |-> "No available candidate slot in Team_Huddle interval respecting NPT/Breaks"])
          /\ blocked_by' =
                IF res.placed THEN blocked_by ELSE Append(blocked_by, {res.branch})
          /\ last' = [kind |-> "huddle", aidx |-> aidx, mn |-> hdef.Meeting_Name,
                      cand |-> res.cand, branch |-> res.branch, key |-> res.key,
                      mgr |-> mgr]
    /\ hpos' = hpos + 1
    /\ UNCHANGED <<inputs, reservations, class_state, phase, ai, mi, ci>>

(* The individual meetings start while groups of the Team_Huddle loop remain *)
NptHuddleDoneEarly ==
    /\ variant = "npt" /\ phase = "huddle"
    /\ phase' = "individual"
    /\ ai' = 1 /\ mi' = 1 /\ ci' = 0
    /\ last' = [NoStep EXCEPT !.kind = "huddle_done"]
    /\ UNCHANGED <<inputs, reservations, class_state, heatmap_df, npt_state, unscheduled, blocked_by, hpos>>

(* The Team_Huddle loop is over: the individual meetings start at row 1 *)
NptHuddleDone ==
    /\ variant = "npt" /\ phase = "huddle" /\ hpos > Len(huddle_work)
    /\ phase' = "individual"
    /\ ai' = 1 /\ mi' = 1 /\ ci' = 0
    /\ last' = [NoStep EXCEPT !.kind = "huddle_done"]
    /\ UNCHANGED <<inputs, reservations, class_state, heatmap_df, npt_state, unscheduled, blocked_by, hpos>>

(* A row that is not working, or whose meetings are all handled *)
NptNextRow ==
    /\ variant = "npt" /\ phase = "individual" /\ ai <= Len(assoc_df)
    /\ assoc_df[ai].Working # 1 \/ mi > Len(meetings)
    /\ ai' = ai + 1 /\ mi' = 1 /\ ci' = 0
    /\ phase' = IF ai + 1 > Len(assoc_df) THEN "done" ELSE phase
    /\ last' = [NoStep EXCEPT !.kind = "next_row", !.aidx = ai]
    /\ UNCHANGED <<inputs, reservations, class_state, heatmap_df, npt_state, unscheduled, blocked_by, hpos>>

(* The Team_Huddle definition is skipped; otherwise do_attempt decides *)
NptDecide ==
    /\ variant = "npt" /\ phase = "individual" /\ ai <= Len(assoc_df)
    /\ assoc_df[ai].Working = 1 /\ mi <= Len(meetings) /\ ci = 0
    /\ LET mdef == meetings[mi]
           br == IF Lower(mdef.Meeting_Name) = Lower(team_huddle_name) THEN "handled"
                 ELSE IF do_attempt(ai, mdef) THEN "attempt" ELSE "not_attempted"
       IN /\ last' = [NoStep EXCEPT !.kind = "decide", !.aidx = ai,
                                    !.mn = mdef.Meeting_Name, !.branch = br]
          /\ IF br = "attempt" THEN ci' = 1 /\ mi' = mi
             ELSE ci' = 0 /\ mi' = mi + 1
    /\ UNCHANGED <<inputs, reservations, class_state, heatmap_df, npt_state, unscheduled, blocked_by, phase,
                   hpos, ai>>

(* One candidate of the slot search *)
NptCandidate ==
    /\ variant = "npt" /\ phase = "individual" /\ ai <= Len(assoc_df)
    /\ assoc_df[ai].Working = 1 /\ mi <= Len(meetings)
    /\ ci >= 1 /\ ci <= Len(assoc_candidates(assoc_df[ai]))
    /\ LET mdef == meetings[mi]
           row  == assoc_df[ai]
           cand == assoc_candidates(row)[ci]
           out  == CandidateOutcome(ai, mdef, cand)
       IN /\ heatmap_df' = out.hm
          /\ last' = [kind |-> "candidate", aidx |-> ai, mn |-> mdef.Meeting_Name,
                      cand |-> cand, branch |-> out.branch, key |-> out.key,
                      mgr |-> out.mgr]
          /\ IF out.branch = "commit"
             THEN /\ assoc_schedules' =
                        [assoc_schedules EXCEPT ![ai] = (mdef.Meeting_Name :> cand) @@ @]
                  /\ manager_schedules' =
                        IF out.mgr # None
                        THEN [manager_schedules EXCEPT
                                 ![out.mgr] = Append(@, Mirror(row.Date, cand, mdef.Duration,
                                                               mdef.Meeting_Name, row.AA_Name))]
                        ELSE manager_schedules
                  /\ commits' = Append(commits, Commit(ai, mdef, cand, out.key, out.mgr))
                  /\ mi' = mi + 1 /\ ci' = 0
             ELSE /\ UNCHANGED <<assoc_schedules, manager_schedules, commits, mi>>
                  /\ ci' = ci + 1
    /\ UNCHANGED <<inputs, reservations, class_state, unscheduled, blocked_by, phase, hpos, ai>>

(* No candidate was accepted and the loop goes on without recording it *)
NptUnscheduledSilent ==
    /\ variant = "npt" /\ phase = "individual" /\ ai <= Len(assoc_df)
    /\ assoc_df[ai].Working = 1 /\ mi <= Len(meetings)
    /\ ci >= 1 /\ ci > Len(assoc_candidates(assoc_df[ai]))
    /\ last' = [NoStep EXCEPT !.kind = "unscheduled", !.aidx = ai,
                              !.mn = meetings[mi].Meeting_Name]
    /\ mi' = mi + 1 /\ ci' = 0
    /\ UNCHANGED <<inputs, reservations, class_state, heatmap_df, npt_state, unscheduled, blocked_by,
                   phase, hpos, ai>>

(* No candidate was accepted *)
NptUnscheduled ==
    /\ variant = "npt" /\ phase = "individual" /\ ai <= Len(assoc_df)
    /\ assoc_df[ai].Working = 1 /\ mi <= Len(meetings)
    /\ ci >= 1 /\ ci > Len(assoc_candidates(assoc_df[ai]))
    /\ unscheduled' =
          Append(unscheduled,
                 [AA_Name |-> assoc_df[ai].AA_Name, Date |-> assoc_df[ai].Date,
                  Meeting_Name |-> meetings[mi].Meeting_Name,
                  Reason |-> "No valid slot respecting shift/breaks/NPT/manager availability"])
    /\ blocked_by' = Append(blocked_by, BlockedBy(ai, meetings[mi]))
    /\ last' = [NoStep EXCEPT !.kind = "unscheduled", !.aidx = ai,
                              !.mn = meetings[mi].Meeting_Name]
    /\ mi' = mi + 1 /\ ci' = 0
    /\ UNCHANGED <<inputs, reservations, class_state, heatmap_df, npt_state, phase, hpos, ai>>

-----------------------------------------------------------------------------
(* meeting_scheduler.py and meeting_scheduler_final.py: shared helpers.     *)
(* Times of day are minutes on one synthetic date; manager ids are the      *)
(* zero-based row labels of Manager_Roster.  The column spellings of        *)
(* meeting_scheduler.py ('Meeting Type', 'Duration (minutes)', 'TM',        *)
(* 'shift_start_time') are read as Meeting_Type, Duration, the row label of *)
(* the associate's Manager, and Shift_start.  The name column of            *)
(* Manager_Roster ('Manager' in meeting_scheduler_final.py) is AA_Name, and *)
(* Manager_Availability "yes" is the affirmative cell of each script.       *)

get_30min_intervals(start_time) ==
    [k \in 1..(DurationHours * 2) |-> start_time + (k - 1) * 30]

is_time_conflicting(person_row, meeting_time, duration_minutes) ==
    \E b \in DOMAIN person_row.breaks :
        Overlaps(meeting_time, meeting_time + duration_minutes,
                 person_row.breaks[b][1], person_row.breaks[b][2])

_has_meeting_conflict(associate_idx, meeting_time, duration) ==
    \E e \in DOMAIN scheduled_meetings[associate_idx] :
        LET ex == scheduled_meetings[associate_idx][e] IN
        Overlaps(meeting_time, meeting_time + duration,
                 ex.meeting_time, ex.meeting_time + ex.duration)

ManagerBusy(manager_id, meeting_time, duration) ==
    \E e \in DOMAIN manager_meetings[manager_id] :
        LET ex == manager_meetings[manager_id][e] IN
        Overlaps(meeting_time, meeting_time + duration,
                 ex.meeting_time, ex.meeting_time + ex.duration)

ManagerLabels == 0..(Len(manager_df) - 1)
ManagerRow(manager_id) == manager_df[manager_id + 1]

(* lowest label of a set of manager labels, NoManager for the empty set *)
FirstLabel(S) == IF S = {} THEN NoManager ELSE CHOOSE j \in S : \A k \in S : j <= k

StartsWithAA(name) == name \in Range(AAName)

ContainsTeamHuddle(name) == Lower(name) \in {"team_huddle"}
ContainsGroup(name) == Lower(name) \in {"group_huddle", "group_training", "group meeting"}

SiteRank(site) == IF site = "S1" THEN 1 ELSE 2

KeyLess(a, b) == a[1] < b[1] \/ (a[1] = b[1] /\ SiteRank(a[2]) < SiteRank(b[2]))

RECURSIVE SortKeys(_)
SortKeys(K) ==
    IF K = {} THEN <<>>
    ELSE LET k == CHOOSE x \in K : \A y \in K \ {x} : KeyLess(x, y)
         IN <<k>> \o SortKeys(K \ {k})

(* groupby(['Shift_start', 'site']): the working 'AA' rows of each key *)
GroupRows(key) ==
    {i \in DOMAIN assoc_df :
        /\ <<assoc_df[i].Shift_start, assoc_df[i].site>> = key
        /\ StartsWithAA(assoc_df[i].AA_Name)
        /\ assoc_df[i].Working = 1}

huddle_groups ==
    SortKeys({<<assoc_df[i].Shift_start, assoc_df[i].site>> :
                 i \in {j \in DOMAIN assoc_df :
                           StartsWithAA(assoc_df[j].AA_Name) /\ assoc_df[j].Working = 1}})

(* int(total_associates * random.uniform(0.5, 0.6)), the ratio in percent *)
first_slot_count(total_associates, ratio) == FloorDiv(total_associates * ratio, 100)

Ratios == 50..60

HuddleInfo(idx, mdef, interval, site) ==
    [associate_id |-> idx, meeting_type |-> mdef.Meeting_Name, meeting_time |-> interval,
     duration |-> mdef.Duration, site |-> site, date |-> assoc_df[idx].Date,
     manager_id |-> NoManager]

(* The two scheduling loops of schedule_team_huddles for one group *)
PlaceHuddles(sm, first_slot_associates, second_slot_associates, huddle_defs, key) ==
    [idx \in DOMAIN sm |->
        IF idx \in Range(first_slot_associates)
        THEN sm[idx] \o [m \in DOMAIN huddle_defs |->
                            HuddleInfo(idx, huddle_defs[m], key[1], key[2])]
        ELSE IF idx \in Range(second_slot_associates)
        THEN sm[idx] \o [m \in DOMAIN huddle_defs |->
                            HuddleInfo(idx, huddle_defs[m], key[1] + 30, key[2])]
        ELSE sm[idx]]

ms_team_huddle_meetings ==
    SelectSeq(meetings, LAMBDA m : ContainsTeamHuddle(m.Meeting_Name)
                                   \/ ContainsGroup(m.Meeting_Name))

final_team_huddle_meetings ==
    SelectSeq(meetings, LAMBDA m : ContainsTeamHuddle(m.Meeting_Name))

team_huddle_meetings ==
    IF variant = "ms" THEN ms_team_huddle_meetings ELSE final_team_huddle_meetings

(* schedule_team_huddles, one (Shift_start, site) group *)
schedule_team_huddles ==
    /\ variant \in {"ms", "final"} /\ phase = "huddle"
    /\ team_huddle_meetings # <<>> /\ hpos <= Len(huddle_groups)
    /\ LET key == huddle_groups[hpos]
           total_associates == Cardinality(GroupRows(key))
       IN \E ratio \in Ratios, associate_list \in Perms(GroupRows(key)) :
            LET fsc == first_slot_count(total_associates, ratio)
                first_slot_associates == SubSeq(associate_list, 1, fsc)
                second_slot_associates == SubSeq(associate_list, fsc + 1, total_associates)
            IN /\ scheduled_meetings' =
                     PlaceHuddles(scheduled_meetings, first_slot_associates,
                                  second_slot_associates, team_huddle_meetings, key)
               /\ team_huddle_stats' =
                     Append(team_huddle_stats,
                            [key |-> key, first |-> fsc,
                             second |-> total_associates - fsc,
                             total |-> total_associates])
               /\ last' = [NoStep EXCEPT !.kind = "class_huddle"]
    /\ hpos' = hpos + 1
    /\ UNCHANGED <<inputs, reservations, npt_state, heatmap_df, unscheduled, blocked_by, manager_meetings,
                   weekly_scheduled_associates, schedule_heatmap, phase, ai, mi, ci>>

(* run(): schedule_one_to_one_meetings follows schedule_team_huddles *)
HuddlesDone ==
    /\ variant \in {"ms", "final"} /\ phase = "huddle"
    /\ team_huddle_meetings = <<>> \/ hpos > Len(huddle_groups)
    /\ phase' = "one_to_one"
    /\ ai' = 1 /\ mi' = 1
    /\ last' = [NoStep EXCEPT !.kind = "huddle_done"]
    /\ UNCHANGED <<inputs, reservations, npt_state, class_state, heatmap_df, unscheduled, blocked_by, hpos, ci>>

-----------------------------------------------------------------------------
(* meeting_scheduler.py: one-to-one meetings *)

ms_one_to_one_meetings ==
    SelectSeq(meetings, LAMBDA m : ~ContainsGroup(m.Meeting_Type))

ms_is_manager_available(manager_id, meeting_time, duration) ==
    /\ manager_id \in ManagerLabels
    /\ ManagerRow(manager_id).Working = 1
    /\ ~is_time_conflicting(ManagerRow(manager_id), meeting_time, duration)
    /\ ~ManagerBusy(manager_id, meeting_time, duration)

(* associate['TM']: the roster label of the associate's manager *)
TM(associate) ==
    FirstLabel({j \in ManagerLabels : ManagerRow(j).AA_Name = associate.Manager})

_check_manager_availability(associate, meeting_time, duration, requires_direct_manager) ==
    IF requires_direct_manager
    THEN IF associate.Manager # NaN
            /\ ms_is_manager_available(TM(associate), meeting_time, duration)
         THEN TM(associate)
         ELSE NoManager
    ELSE FirstLabel({j \in ManagerLabels :
                        ms_is_manager_available(j, meeting_time, duration)})

(* truth value of a manager id in "if manager_available:" *)
Truthy(manager_id) == manager_id # NoManager /\ manager_id # 0

NotFound == [found |-> FALSE, meeting_time |-> NaT, manager_id |-> NoManager]

RECURSIVE ms_search(_, _, _, _, _)
ms_search(intervals, associate_idx, associate, duration, requires_direct_manager) ==
    IF intervals = <<>> THEN NotFound
    ELSE LET interval == Head(intervals)
             rest == ms_search(Tail(intervals), associate_idx, associate, duration,
                               requires_direct_manager)
         IN IF is_time_conflicting(associate, interval, duration) THEN rest
            ELSE IF _has_meeting_conflict(associate_idx, interval, duration) THEN rest
            ELSE LET manager_available ==
                         _check_manager_availability(associate, interval, duration,
                                                     requires_direct_manager)
                 IN IF Truthy(manager_available)
                    THEN [found |-> TRUE, meeting_time |-> interval,
                          manager_id |-> manager_available]
                    ELSE rest

ms_schedule_individual_meeting(associate_idx, associate, duration, requires_direct_manager) ==
    LET intervals == get_30min_intervals(associate.Shift_start)
    IN ms_search(SubSeq(intervals, 3, Len(intervals)), associate_idx, associate,
                 duration, requires_direct_manager)

ms_should_schedule_meeting(frequency) ==
    IF frequency = "daily" THEN {TRUE}
    ELSE IF frequency \in {"weekly", "monthly"} THEN {TRUE, FALSE}
    ELSE {FALSE}

-----------------------------------------------------------------------------
(* meeting_scheduler_final.py: one-to-one meetings *)

final_one_to_one_meetings ==
    SelectSeq(meetings, LAMBDA m : ~ContainsTeamHuddle(m.Meeting_Name))

_is_manager_available(manager_idx, meeting_time, duration) ==
    /\ manager_idx \in ManagerLabels
    /\ LET manager == ManagerRow(manager_idx) IN
       /\ manager.Working = 1
       /\ (manager.Shift_start # NaT /\ manager.Shift_end # NaT)
             => (meeting_time >= manager.Shift_start
                 /\ meeting_time + duration <= manager.Shift_end)
       /\ ~is_time_conflicting(manager, meeting_time, duration)
       /\ ~ManagerBusy(manager_idx, meeting_time, duration)

_find_available_manager(associate, meeting_time, duration, requires_direct_manager) ==
    LET manager_rows ==
            {j \in ManagerLabels :
                /\ ManagerRow(j).AA_Name = associate.Manager
                /\ ManagerRow(j).Date = associate.Date
                /\ ManagerRow(j).Working = 1}
        direct == FirstLabel({j \in manager_rows :
                                 _is_manager_available(j, meeting_time, duration)})
        date_managers ==
            {j \in ManagerLabels :
                ManagerRow(j).Date = associate.Date /\ ManagerRow(j).Working = 1}
        same_site == FirstLabel({j \in date_managers :
                                    /\ ManagerRow(j).site = associate.site
                                    /\ _is_manager_available(j, meeting_time, duration)})
        any_site == FirstLabel({j \in date_managers :
                                   _is_manager_available(j, meeting_time, duration)})
    IN IF associate.Manager # NaN /\ manager_rows = {} THEN NoManager
       ELSE IF associate.Manager # NaN /\ direct # NoManager THEN direct
       ELSE IF ~requires_direct_manager
       THEN (IF same_site # NoManager THEN same_site ELSE any_site)
       ELSE NoManager

RECURSIVE final_search(_, _, _, _, _)
final_search(intervals, associate_idx, associate, duration, requires_direct_manager) ==
    IF intervals = <<>> THEN NotFound
    ELSE LET interval == Head(intervals)
             rest == final_search(Tail(intervals), associate_idx, associate, duration,
                                  requires_direct_manager)
         IN IF is_time_conflicting(associate, interval, duration) THEN rest
            ELSE IF _has_meeting_conflict(associate_idx, interval, duration) THEN rest
            ELSE LET manager_id ==
                         _find_available_manager(associate, interval, duration,
                                                 requires_direct_manager)
                 IN IF manager_id # NoManager
                    THEN [found |-> TRUE, meeting_time |-> interval,
                          manager_id |-> manager_id]
                    ELSE rest

final_schedule_individual_meeting(associate_idx, associate, duration, requires_direct_manager) ==
    LET intervals == get_30min_intervals(associate.Shift_start)
    IN final_search(SubSeq(intervals, 3, Len(intervals)), associate_idx, associate,
                    duration, requires_direct_manager)

final_should_schedule_meeting(frequency) ==
    IF frequency = "daily" THEN {TRUE}
    ELSE IF frequency \in {"weekly", "monthly"} THEN {TRUE, FALSE}
    ELSE {FALSE}

-----------------------------------------------------------------------------
(* schedule_one_to_one_meetings: one (meeting, associate) iteration *)

one_to_one_meetings ==
    IF variant = "ms" THEN ms_one_to_one_meetings ELSE final_one_to_one_meetings

MeetingInfo(idx, label, mdef, res) ==
    [associate_id |-> idx, meeting_type |-> label, meeting_time |-> res.meeting_time,
     duration |-> mdef.Duration, site |-> assoc_df[idx].site,
     date |-> assoc_df[idx].Date, manager_id |-> res.manager_id]

(* what stopped the intervals of a failed search of the class based         *)
(* schedulers: a break, a meeting of the associate, or no manager           *)
ClassBlockedBy(associate_idx, associate, duration) ==
    LET intervals == get_30min_intervals(associate.Shift_start) IN
    {IF is_time_conflicting(associate, intervals[n], duration) THEN "break"
     ELSE IF _has_meeting_conflict(associate_idx, intervals[n], duration) THEN "conflict"
     ELSE "manager" : n \in 3..Len(intervals)}

(* the iteration after (mi, ai): next associate, then next meeting *)
Advance ==
    IF ai < Len(assoc_df) THEN ai' = ai + 1 /\ mi' = mi
    ELSE ai' = 1 /\ mi' = mi + 1

(* rows the loop passes over: not working (and, in the final version, a     *)
(* name that already has its weekly meeting)                                *)
OneToOneSkip ==
    /\ variant \in {"ms", "final"} /\ phase = "one_to_one"
    /\ mi <= Len(one_to_one_meetings)
    /\ \/ assoc_df[ai].Working # 1
       \/ /\ variant = "final"
          /\ one_to_one_meetings[mi].Frequency = "weekly"
          /\ assoc_df[ai].AA_Name \in weekly_scheduled_associates
    /\ Advance
    /\ last' = [NoStep EXCEPT !.kind = "skip", !.aidx = ai,
                              !.mn = one_to_one_meetings[mi].Meeting_Name]
    /\ UNCHANGED <<inputs, reservations, npt_state, class_state, heatmap_df, unscheduled, blocked_by, phase,
                   hpos, ci>>

ms_one_to_one ==
    /\ variant = "ms" /\ phase = "one_to_one"
    /\ mi <= Len(one_to_one_meetings)
    /\ assoc_df[ai].Working = 1
    /\ LET meeting == one_to_one_meetings[mi]
           associate == assoc_df[ai]
           requires_direct_manager == meeting.Manager_Availability = "yes"
           scheduled == ms_schedule_individual_meeting(ai, associate, meeting.Duration,
                                                       requires_direct_manager)
           info == MeetingInfo(ai, meeting.Meeting_Type, meeting, scheduled)
       IN \E should \in ms_should_schedule_meeting(meeting.Frequency) :
            /\ last' = [kind |-> "one_to_one", aidx |-> ai, mn |-> meeting.Meeting_Name,
                        cand |-> IF should THEN scheduled.meeting_time ELSE NaT,
                        branch |-> IF ~should THEN "not_attempted"
                                   ELSE IF scheduled.found THEN "commit" ELSE "unscheduled",
                        key |-> NoKey, mgr |-> None]
            /\ IF should /\ scheduled.found
               THEN /\ scheduled_meetings' =
                          [scheduled_meetings EXCEPT ![ai] = Append(@, info)]
                    /\ manager_meetings' =
                          [manager_meetings EXCEPT ![scheduled.manager_id] = Append(@, info)]
                    /\ UNCHANGED <<unscheduled, blocked_by>>
               ELSE /\ UNCHANGED <<scheduled_meetings, manager_meetings>>
                    /\ unscheduled' =
                          IF should
                          THEN Append(unscheduled,
                                      [associate_id |-> ai,
                                       meeting_type |-> meeting.Meeting_Type,
                                       reason |-> "No available slot found"])
                          ELSE unscheduled
                    /\ blocked_by' =
                          IF should
                          THEN Append(blocked_by,
                                      ClassBlockedBy(ai, associate, meeting.Duration))
                          ELSE blocked_by
    /\ Advance
    /\ UNCHANGED <<inputs, reservations, npt_state, heatmap_df, weekly_scheduled_associates,
                   team_huddle_stats, schedule_heatmap, phase, hpos, ci>>

(* schedule_one_to_one_meetings without the tracking of weekly meetings *)
final_one_to_one_untracked ==
    /\ variant = "final" /\ phase = "one_to_one"
    /\ mi <= Len(one_to_one_meetings)
    /\ assoc_df[ai].Working = 1
    /\ ~(one_to_one_meetings[mi].Frequency = "weekly"
         /\ assoc_df[ai].AA_Name \in weekly_scheduled_associates)
    /\ LET meeting == one_to_one_meetings[mi]
           associate == assoc_df[ai]
           requires_direct_manager == meeting.Manager_Availability = "yes"
           scheduled == final_schedule_individual_meeting(ai, associate, meeting.Duration,
                                                          requires_direct_manager)
           info == MeetingInfo(ai, meeting.Meeting_Name, meeting, scheduled)
       IN \E should \in final_should_schedule_meeting(meeting.Frequency) :
            /\ last' = [kind |-> "one_to_one", aidx |-> ai, mn |-> meeting.Meeting_Name,
                        cand |-> IF should THEN scheduled.meeting_time ELSE NaT,
                        branch |-> IF ~should THEN "not_attempted"
                                   ELSE IF scheduled.found THEN "commit" ELSE "unscheduled",
                        key |-> NoKey, mgr |-> None]
            /\ IF should /\ scheduled.found
               THEN /\ scheduled_meetings' =
                          [scheduled_meetings EXCEPT ![ai] = Append(@, info)]
                    /\ manager_meetings' =
                          [manager_meetings EXCEPT ![scheduled.manager_id] = Append(@, info)]
                    /\ weekly_scheduled_associates' = weekly_scheduled_associates
                    /\ UNCHANGED <<unscheduled, blocked_by>>
               ELSE /\ UNCHANGED <<scheduled_meetings, manager_meetings,
                                   weekly_scheduled_associates>>
                    /\ unscheduled' =
                          IF should
                          THEN Append(unscheduled,
                                      [associate_id |-> ai,
                                       meeting_type |-> meeting.Meeting_Name,
                                       reason |-> "No available slot found"])
                          ELSE unscheduled
                    /\ blocked_by' =
                          IF should
                          THEN Append(blocked_by,
                                      ClassBlockedBy(ai, associate, meeting.Duration))
                          ELSE blocked_by
    /\ Advance
    /\ UNCHANGED <<inputs, reservations, npt_state, heatmap_df, team_huddle_stats, schedule_heatmap,
                   phase, hpos, ci>>

final_one_to_one ==
    /\ variant = "final" /\ phase = "one_to_one"
    /\ mi <= Len(one_to_one_meetings)
    /\ assoc_df[ai].Working = 1
    /\ ~(one_to_one_meetings[mi].Frequency = "weekly"
         /\ assoc_df[ai].AA_Name \in weekly_scheduled_associates)
    /\ LET meeting == one_to_one_meetings[mi]
           associate == assoc_df[ai]
           requires_direct_manager == meeting.Manager_Availability = "yes"
           scheduled == final_schedule_individual_meeting(ai, associate, meeting.Duration,
                                                          requires_direct_manager)
           info == MeetingInfo(ai, meeting.Meeting_Name, meeting, scheduled)
       IN \E should \in final_should_schedule_meeting(meeting.Frequency) :
            /\ last' = [kind |-> "one_to_one", aidx |-> ai, mn |-> meeting.Meeting_Name,
                        cand |-> IF should THEN scheduled.meeting_time ELSE NaT,
                        branch |-> IF ~should THEN "not_attempted"
                                   ELSE IF scheduled.found THEN "commit" ELSE "unscheduled",
                        key |-> NoKey, mgr |-> None]
            /\ IF should /\ scheduled.found
               THEN /\ scheduled_meetings' =
                          [scheduled_meetings EXCEPT ![ai] = Append(@, info)]
                    /\ manager_meetings' =
                          [manager_meetings EXCEPT ![scheduled.manager_id] = Append(@, info)]
                    /\ weekly_scheduled_associates' =
                          IF meeting.Frequency = "weekly"
                          THEN weekly_scheduled_associates \cup {associate.AA_Name}
                          ELSE weekly_scheduled_associates
                    /\ UNCHANGED <<unscheduled, blocked_by>>
               ELSE /\ UNCHANGED <<scheduled_meetings, manager_meetings,
                                   weekly_scheduled_associates>>
                    /\ unscheduled' =
                          IF should
                          THEN Append(unscheduled,
                                      [associate_id |-> ai,
                                       meeting_type |-> meeting.Meeting_Name,
                                       reason |-> "No available slot found"])
                          ELSE unscheduled
                    /\ blocked_by' =
                          IF should
                          THEN Append(blocked_by,
                                      ClassBlockedBy(ai, associate, meeting.Duration))
                          ELSE blocked_by
    /\ Advance
    /\ UNCHANGED <<inputs, reservations, npt_state, heatmap_df, team_huddle_stats, schedule_heatmap,
                   phase, hpos, ci>>

(* every meeting definition has been handled *)
OneToOneDone ==
    /\ variant \in {"ms", "final"} /\ phase = "one_to_one"
    /\ mi > Len(one_to_one_meetings)
    /\ phase' = "heatmap"
    /\ last' = [NoStep EXCEPT !.kind = "done"]
    /\ UNCHANGED <<inputs, reservations, npt_state, class_state, heatmap_df, unscheduled, blocked_by, hpos,
                   ai, mi, ci>>

-----------------------------------------------------------------------------
(* update_schedule_heatmap of the class based schedulers *)

(* meeting_info of _schedule_individual_meeting carries 'workgroup' (and a  *)
(* manager); meeting_info of schedule_team_huddles carries 'site' instead   *)
HasWorkgroup(meeting) == meeting.manager_id # NoManager

(* the roster column the heatmap is keyed by (Workgroup / Skill) *)
WorkgroupOf(meeting) == assoc_df[meeting.associate_id].Skill

(* meeting['date'] == date and meeting['workgroup'] == workgroup: the       *)
(* lookup of 'workgroup' raises KeyError on a huddle entry of that date     *)
ms_raises(row) ==
    \E p \in DOMAIN scheduled_meetings :
        \E e \in DOMAIN scheduled_meetings[p] :
            /\ scheduled_meetings[p][e].date = row.Date
            /\ ~HasWorkgroup(scheduled_meetings[p][e])

RECURSIVE ms_npt_count(_, _)
ms_npt_count(row, ms) ==
    IF ms = <<>> THEN 0
    ELSE (IF /\ Head(ms).date = row.Date
             /\ WorkgroupOf(Head(ms)) = row.Skill
             /\ Head(ms).meeting_time = row.Interval
          THEN Head(ms).duration ELSE 0)
         + ms_npt_count(row, Tail(ms))

Recomputed(row, npt_count) ==
    [row EXCEPT !.NPT_Count = npt_count,
                !.Revised_Staffing =
                    (row.Scheduled * HalfHour - npt_count) - row.Requirement * HalfHour]

Zeroed(row) == [row EXCEPT !.NPT_Count = 0, !.Revised_Staffing = 0]

(* meeting_scheduler.py: both columns are set to 0.0, then the rows are     *)
(* recomputed in order until a row raises                                    *)
ms_update_schedule_heatmap(hm) ==
    LET bad == {i \in DOMAIN hm : ms_raises(hm[i])}
        stop == IF bad = {} THEN Len(hm) + 1 ELSE CHOOSE i \in bad : \A k \in bad : i <= k
    IN [raised |-> bad # {},
        hm |-> [i \in DOMAIN hm |->
                  IF i < stop
                  THEN Recomputed(hm[i], ms_npt_count(hm[i], Flatten(scheduled_meetings)))
                  ELSE Zeroed(hm[i])]]

(* the roster cell 'Team_Huddle' (huddle) or 'One-2-One' of a row: the time *)
(* written by the last meeting of that kind, NaT while it is empty          *)
RosterCell(idx, huddle) ==
    LET es == SelectSeq(scheduled_meetings[idx],
                        LAMBDA e : ContainsTeamHuddle(e.meeting_type) = huddle)
    IN IF es = <<>> THEN NaT ELSE es[Len(es)].meeting_time

team_huddle_duration == 15
one_to_one_duration == 30

RECURSIVE final_npt_count(_, _)
final_npt_count(row, n) ==
    IF n = 0 THEN 0
    ELSE (IF /\ assoc_df[n].Date = row.Date
             /\ assoc_df[n].Skill = row.Skill
             /\ assoc_df[n].Working = 1
          THEN (IF RosterCell(n, TRUE) = row.Interval THEN team_huddle_duration ELSE 0)
               + (IF RosterCell(n, FALSE) = row.Interval THEN one_to_one_duration ELSE 0)
          ELSE 0)
         + final_npt_count(row, n - 1)

final_update_schedule_heatmap(hm) ==
    [raised |-> FALSE,
     hm |-> [i \in DOMAIN hm |->
               Recomputed(hm[i], final_npt_count(hm[i], Len(assoc_df)))]]

(* run(): update_schedule_heatmap follows the scheduling; an exception ends *)
(* the run before save_results                                              *)
update_schedule_heatmap ==
    /\ variant \in {"ms", "final"} /\ phase = "heatmap"
    /\ LET out == IF variant = "ms" THEN ms_update_schedule_heatmap(schedule_heatmap)
                  ELSE final_update_schedule_heatmap(schedule_heatmap)
       IN /\ schedule_heatmap' = out.hm
          /\ phase' = IF out.raised THEN "failed" ELSE "done"
          /\ last' = [NoStep EXCEPT !.kind = "update_heatmap",
                                    !.branch = IF out.raised THEN "KeyError" ELSE "ok"]
    /\ UNCHANGED <<inputs, reservations, npt_state, heatmap_df, scheduled_meetings, manager_meetings,
                   weekly_scheduled_associates, team_huddle_stats, unscheduled,
                   blocked_by, hpos, ai, mi, ci>>

Next ==
    \/ NptHuddle
    \/ NptHuddleDone
    \/ NptNextRow
    \/ NptDecide
    \/ NptCandidate
    \/ NptUnscheduled
    \/ schedule_team_huddles
    \/ HuddlesDone
    \/ OneToOneSkip
    \/ ms_one_to_one
    \/ final_one_to_one
    \/ OneToOneDone
    \/ update_schedule_heatmap

Spec == Init /\ [][Next]_vars

(* The position of a run: its phase and its loop indices *)
pos == <<phase, hpos, ai, mi, ci>>

(* The position moves on: an index advances or is reset, or the run goes to *)
(* its next phase.  Every step of Next is such a move.                      *)
Moves ==
    /\ phase \notin {"done", "failed"}
    /\ \E ph \in {phase, "individual", "one_to_one", "heatmap", "done", "failed"},
          h \in {hpos, hpos + 1}, a \in {1, ai, ai + 1}, m \in {1, mi, mi + 1},
          c \in {0, 1, ci, ci + 1} :
          /\ <<ph, h, a, m, c>> # pos
          /\ phase' = ph /\ hpos' = h /\ ai' = a /\ mi' = m /\ ci' = c

(* The scripts are sequential programs: a run that has not ended moves on *)
SpecFair == Spec /\ WF_pos(Moves)

NextSplit ==
    \/ NptHuddle
    \/ NptHuddleDone
    \/ schedule_team_huddles
    \/ HuddlesDone

SpecSplit == InitSplit /\ [][NextSplit]_vars

(* Runs of npt_scheduler.py on one associate whose shift starts on or off   *)
(* the 30-minute grid, or whose Shift_start cell is empty, and lasts from a *)
(* quarter of an hour upwards                                               *)
GridShiftStarts == {540, 555, 570, NaT}
GridShiftLengths == {15, 25, 30, 45, 60, 105}

GridRow(ss, len, br) ==
    [AssocRow(1, br, 1, "TM1") EXCEPT
        !.Shift_start = ss, !.Shift_end = (IF ss = NaT THEN 0 ELSE ss) + len]

(* break columns of the row: none, on the grid, off the grid, an end before *)
(* the start, and an end equal to the start                                 *)
GridBreaks ==
    BreakChoices \cup {<< <<555, 585>> >>, << <<600, 570>> >>, << <<585, 585>> >>}

InitGrid ==
    /\ variant = "npt"
    /\ \E ss \in GridShiftStarts, len \in GridShiftLengths, br \in GridBreaks :
          assoc_df = <<GridRow(ss, len, br)>>
    /\ manager_df \in {r \in ManagerRosters : r[1].site = "S1"}
    /\ meetings \in {<<Huddle(d), m>> : d \in {15, 45}, m \in {OneToOne, Coaching}}
    /\ heatmap_df = [i \in DOMAIN SlotStarts |->
                       HeatRow(IntervalStr(SlotStarts[i]), "S1", 5, 2)]
    /\ manager_list = [j \in DOMAIN manager_df |-> manager_df[j].AA_Name]
    /\ InitRun
    /\ reservations = NoReservations

NextGrid ==
    \/ NptHuddle
    \/ NptHuddleDone
    \/ NptNextRow
    \/ NptDecide
    \/ NptCandidate
    \/ NptUnscheduled

SpecGrid == InitGrid /\ [][NextGrid]_vars

(* Runs of npt_scheduler.py on a roster that covers two dates: the rows     *)
(* share one shift start, every date has its ledger cells                   *)
(* Runs of the class based schedulers in which the first manager of the     *)
(* roster (label 0) works and has a break inside the searched intervals     *)
ManagerBreaks == {<< <<600, 630>> >>, << <<630, 660>> >>}

InitManagerBreaks ==
    /\ variant \in {"ms", "final"}
    /\ assoc_df \in Rosters
    /\ manager_df \in {[r EXCEPT ![1].breaks = b] :
                          r \in {x \in ManagerRosters : x[1].Working = 1},
                          b \in ManagerBreaks}
    /\ meetings \in MeetingLists
    /\ heatmap_df = [i \in DOMAIN SlotStarts |->
                       HeatRow(IntervalStr(SlotStarts[i]), "S1", 5, 2)]
    /\ manager_list = [j \in DOMAIN manager_df |-> manager_df[j].AA_Name]
    /\ InitRun
    /\ reservations = NoReservations

NextClass ==
    \/ schedule_team_huddles
    \/ HuddlesDone
    \/ OneToOneSkip
    \/ ms_one_to_one
    \/ final_one_to_one
    \/ OneToOneDone
    \/ update_schedule_heatmap

SpecManagerBreaks == InitManagerBreaks /\ [][NextClass]_vars

(* Runs on a Constraint sheet that holds one meeting definition twice *)
RepeatedLists ==
    {<<Huddle(d), m, m>> : d \in {15, 45}, m \in {OneToOne, Coaching}}

InitRepeated ==
    /\ variant \in {"npt", "ms", "final"}
    /\ assoc_df \in Rosters
    /\ manager_df \in ManagerRosters
    /\ meetings \in RepeatedLists
    /\ heatmap_df = [i \in DOMAIN SlotStarts |->
                       HeatRow(IntervalStr(SlotStarts[i]), "S1", 5, 2)]
    /\ manager_list = [j \in DOMAIN manager_df |-> manager_df[j].AA_Name]
    /\ InitRun
    /\ reservations = NoReservations

SpecRepeated == InitRepeated /\ [][Next]_vars

RosterDates == {1, 2}
MaxDatedRows == 3

InitDates ==
    /\ variant = "npt"
    /\ \E n \in 2..MaxDatedRows :
          assoc_df \in {f \in [1..n -> UNION {{[AssocRow(i, <<>>, 1, "TM1")
                                                   EXCEPT !.Date = d] : d \in RosterDates}
                                                : i \in 1..n}] :
                           \A i \in 1..n : f[i].AA_Name = AAName[i]}
    /\ manager_df \in {r \in ManagerRosters : r[1].site = "S1"}
    /\ meetings \in {<<Huddle(d), OneToOne>> : d \in {15, 45}}
    /\ heatmap_df =
          [i \in 1..(2 * Len(SlotStarts)) |->
              IF i <= Len(SlotStarts)
              THEN HeatRow(IntervalStr(SlotStarts[i]), "S1", 5, 2)
              ELSE [HeatRow(IntervalStr(SlotStarts[i - Len(SlotStarts)]), "S1", 5, 2)
                       EXCEPT !.Date = 2]]
    /\ manager_list = [j \in DOMAIN manager_df |-> manager_df[j].AA_Name]
    /\ InitRun
    /\ reservations = NoReservations

SpecDates == InitDates /\ [][NextGrid]_vars

-----------------------------------------------------------------------------
(* The reservation of npt_scheduler.py on one ledger cell, statement by     *)
(* statement: the pre-check, update_heatmap_for_interval, the read of       *)
(* new_val, and the rollback or the commit.  In the script they run one     *)
(* attempt at a time; "interleaved" lets the statements of several attempts *)
(* on the same key alternate, as they would without a lock per key.         *)

NumAttempts == 2
AttemptDurations == {30, 60}
AttemptThresholds == {0, 2, 3}

LedgerCell == HeatRow(IntervalStr(540), "S1", 5, 2)

Attempt(d, thr) ==
    [pc |-> "start", duration |-> d, threshold |-> thr, new_val |-> 0, foreign |-> 0,
     base |-> 0, result |-> ""]

(* minutes added by the other attempts and not yet committed or rolled back *)
ProvisionalOf(att, t) ==
    LET RECURSIVE Sum(_)
        Sum(k) == IF k = 0 THEN 0
                  ELSE Sum(k - 1) + (IF k # t /\ att[k].pc \in {"read", "settle"}
                                     THEN att[k].duration ELSE 0)
    IN Sum(Len(att))

(* minutes of the committed attempts *)
CommittedOf(att) ==
    LET RECURSIVE Sum(_)
        Sum(k) == IF k = 0 THEN 0
                  ELSE Sum(k - 1) + (IF att[k].result = "accepted"
                                     THEN att[k].duration ELSE 0)
    IN Sum(Len(att))

(* no discipline at all: any attempt may take its next statement *)
MayRunAlways(t) == TRUE

(* one logical thread of control: no other attempt is between its pre-check *)
(* and its commit or rollback                                               *)
MayRun(t) ==
    \/ reservations.mode = "interleaved"
    \/ \A u \in DOMAIN reservations.att :
          u # t => reservations.att[u].pc \in {"start", "done"}

InitLedgerKey ==
    /\ variant = "npt"
    /\ assoc_df = <<AssocRow(1, <<>>, 1, "TM1")>>
    /\ manager_df \in {r \in ManagerRosters : r[1].site = "S1" /\ r[1].Working = 1}
    /\ meetings = <<Huddle(15), OneToOne>>
    /\ heatmap_df = <<LedgerCell>>
    /\ manager_list = [j \in DOMAIN manager_df |-> manager_df[j].AA_Name]
    /\ InitRun
    /\ \E m \in {"serial", "interleaved"} :
       \E a \in [1..NumAttempts ->
                   {Attempt(d, thr) : d \in AttemptDurations, thr \in AttemptThresholds}] :
          reservations = [mode |-> m, att |-> a]

(* initial_revised_buffer <= threshold: continue *)
ReservePrecheck ==
    \E t \in DOMAIN reservations.att :
        /\ reservations.att[t].pc = "start" /\ MayRun(t)
        /\ reservations' =
              [reservations EXCEPT !.att[t] =
                  IF PreCheckRejects(heatmap_df[1], @.threshold)
                  THEN [@ EXCEPT !.pc = "done", !.result = "rejected"]
                  ELSE [@ EXCEPT !.pc = "add"]]
        /\ UNCHANGED <<inputs, class_state, heatmap_df, npt_state, unscheduled, blocked_by,
                       phase, hpos, ai, mi, ci, last>>

(* update_heatmap_for_interval(ok_k[0], ok_k[1], ok_k[2], meeting_duration) *)
ReserveAdd ==
    \E t \in DOMAIN reservations.att :
        /\ reservations.att[t].pc = "add" /\ MayRun(t)
        /\ heatmap_df' =
              update_heatmap_for_interval(heatmap_df, LedgerCell.Date, LedgerCell.Interval,
                                          LedgerCell.Skill, reservations.att[t].duration)
        /\ reservations' = [reservations EXCEPT !.att[t].pc = "read"]
        /\ UNCHANGED <<inputs, class_state, npt_state, unscheduled, blocked_by,
                       phase, hpos, ai, mi, ci, last>>

(* new_val = heatmap_df.at[heat_idx, 'Revised_Staffing_heatmap'] *)
ReserveRead ==
    \E t \in DOMAIN reservations.att :
        /\ reservations.att[t].pc = "read" /\ MayRun(t)
        /\ reservations' =
              [reservations EXCEPT !.att[t] =
                  [@ EXCEPT !.pc = "settle",
                            !.new_val = heatmap_df[1].Revised_Staffing_heatmap,
                            !.foreign = ProvisionalOf(reservations.att, t),
                            !.base = CommittedOf(reservations.att)]]
        /\ UNCHANGED <<inputs, class_state, heatmap_df, npt_state, unscheduled, blocked_by,
                       phase, hpos, ai, mi, ci, last>>

(* if new_val < threshold: rollback_heatmap_for_interval(...); continue     *)
(* otherwise the commit                                                     *)
ReserveSettle ==
    \E t \in DOMAIN reservations.att :
        /\ reservations.att[t].pc = "settle" /\ MayRun(t)
        /\ IF reservations.att[t].new_val < reservations.att[t].threshold * HalfHour
           THEN /\ heatmap_df' =
                      rollback_heatmap_for_interval(heatmap_df, LedgerCell.Date,
                                                    LedgerCell.Interval, LedgerCell.Skill,
                                                    reservations.att[t].duration)
                /\ reservations' =
                      [reservations EXCEPT !.att[t].pc = "done",
                                           !.att[t].result = "rejected"]
           ELSE /\ heatmap_df' = heatmap_df
                /\ reservations' =
                      [reservations EXCEPT !.att[t].pc = "done",
                                           !.att[t].result = "accepted"]
        /\ UNCHANGED <<inputs, class_state, npt_state, unscheduled, blocked_by,
                       phase, hpos, ai, mi, ci, last>>

NextLedgerKey ==
    \/ ReservePrecheck
    \/ ReserveAdd
    \/ ReserveRead
    \/ ReserveSettle

SpecLedgerKey == InitLedgerKey /\ [][NextLedgerKey]_vars

-----------------------------------------------------------------------------
(* Properties *)

(* the last step committed an assignment through the capacity ledger *)
LedgerCommit == last.kind \in {"huddle", "candidate"} /\ last.branch = "commit"

(* the last step took a candidate as far as the ledger *)
ReachedLedger ==
    /\ last.kind \in {"huddle", "candidate"}
    /\ last.branch \in {"no_key", "precheck", "postcheck", "commit"}

(* minutes committed against the cell of key k, from the log of commits *)
RECURSIVE CommittedMinutes(_, _)
CommittedMinutes(cs, k) ==
    IF cs = <<>> THEN 0
    ELSE (IF Head(cs).key = k THEN Head(cs).duration ELSE 0)
         + CommittedMinutes(Tail(cs), k)

(* C1: no double booking.  For every associate no two committed           *)
(* assignments overlap, each one occupying [start, start + the duration of  *)
(* its own meeting): the dict of npt_scheduler.py and the meeting lists of  *)
(* the class based schedulers, whatever the meeting definitions are.        *)
NoDoubleBooking ==
    /\ \A i \in DOMAIN assoc_schedules :
          \A m1, m2 \in DOMAIN assoc_schedules[i] :
             m1 # m2 =>
                ~Overlaps(assoc_schedules[i][m1],
                          assoc_schedules[i][m1] + DurationOf(m1),
                          assoc_schedules[i][m2],
                          assoc_schedules[i][m2] + DurationOf(m2))
    /\ \A i \in DOMAIN scheduled_meetings :
          \A e1, e2 \in DOMAIN scheduled_meetings[i] :
             e1 < e2 =>
                ~Overlaps(scheduled_meetings[i][e1].meeting_time,
                          scheduled_meetings[i][e1].meeting_time
                             + scheduled_meetings[i][e1].duration,
                          scheduled_meetings[i][e2].meeting_time,
                          scheduled_meetings[i][e2].meeting_time
                             + scheduled_meetings[i][e2].duration)

(* C2: break exclusion.  The whole span [start, start + duration) of every  *)
(* committed assignment, huddle or individual, overlaps none of the break   *)
(* windows of the associate, for every configured duration.                 *)
BreakExclusion ==
    /\ \A i \in DOMAIN assoc_schedules :
          \A mn \in DOMAIN assoc_schedules[i] :
             \A b \in DOMAIN assoc_df[i].breaks :
                ~Overlaps(assoc_schedules[i][mn],
                          assoc_schedules[i][mn] + DurationOf(mn),
                          to_datetime_on_date(assoc_df[i].Date, assoc_df[i].breaks[b][1]),
                          to_datetime_on_date(assoc_df[i].Date, assoc_df[i].breaks[b][2]))
    /\ \A i \in DOMAIN scheduled_meetings :
          \A e \in DOMAIN scheduled_meetings[i] :
             \A b \in DOMAIN assoc_df[i].breaks :
                ~Overlaps(scheduled_meetings[i][e].meeting_time,
                          scheduled_meetings[i][e].meeting_time
                             + scheduled_meetings[i][e].duration,
                          assoc_df[i].breaks[b][1], assoc_df[i].breaks[b][2])

ThresholdOf(mn) ==
    LET ds == {m \in DOMAIN meetings : meetings[m].Meeting_Name = mn} IN
    meetings[CHOOSE m \in ds : \A k \in ds : m <= k].NPT_Threshold

RequiresDirect(mn) ==
    \E m \in DOMAIN meetings :
        meetings[m].Meeting_Name = mn /\ meetings[m].Manager_Availability = "yes"

RejectedReservationRestored ==
    [][ ( /\ last'.kind \in {"huddle", "candidate"}
          /\ last'.key # NoKey
          /\ LET r == heatmap_df[heatmap_index(heatmap_df, last'.key)] IN
             (r.Scheduled * HalfHour - (r.NPT_Count + DurationOf(last'.mn)))
                - r.Requirement * HalfHour < ThresholdOf(last'.mn) * HalfHour )
        => ( /\ last'.branch \in {"precheck", "postcheck"}
             /\ heatmap_df' = heatmap_df
             /\ UNCHANGED npt_state ) ]_vars

(* a candidate was rejected after the provisional add, on a loaded cell *)
RolledBackOnLoadedCell ==
    /\ last.kind = "candidate" /\ last.branch = "postcheck"
    /\ heatmap_df[heatmap_index(heatmap_df, last.key)].NPT_Count > 0

CheckedDurations == {15, 30, 45, 60}
CheckedThresholds == 0..3
CheckedMinutes == {-30, 0, 15, 30, 45, 60, 90}

(* C5: on every cell of every reachable ledger, a reservation of positive  *)
(* duration d with threshold t is accepted exactly when                     *)
(* (scheduled - (load + d/30)) - requirement >= t, and the pre-check on     *)
(* scheduled - requirement rejects nothing that this criterion accepts.     *)
AcceptedIffCriterion ==
    \A i \in DOMAIN heatmap_df, d \in CheckedDurations, t \in CheckedThresholds :
        LET r == heatmap_df[i]
            criterion == (r.Scheduled * HalfHour - (r.NPT_Count + d))
                            - r.Requirement * HalfHour >= t * HalfHour
        IN /\ (TryReserve(heatmap_df, KeyOf(r), d, t).branch = "ok") <=> criterion
           /\ PreCheckRejects(r, t) => ~criterion

(* a commit that leaves the cell exactly at the threshold *)
CommitAtThreshold ==
    /\ LedgerCommit
    /\ heatmap_df[heatmap_index(heatmap_df, last.key)].Revised_Staffing_heatmap
          = ThresholdOf(last.mn) * HalfHour
    /\ ThresholdOf(last.mn) > 0

(* C6: on every cell of every reachable ledger, update_heatmap_for_interval *)
(* followed by rollback_heatmap_for_interval with the same key and minutes  *)
(* gives back the ledger: load and revised staffing are what they were.     *)
ReserveReleaseIdentity ==
    \A i \in DOMAIN heatmap_df, m \in CheckedMinutes :
        LET k == KeyOf(heatmap_df[i]) IN
        rollback_heatmap_for_interval(
            update_heatmap_for_interval(heatmap_df, k[1], k[2], k[3], m),
            k[1], k[2], k[3], m) = heatmap_df

(* the huddle loop added and rolled back on a cell *)
HuddleRolledBack == last.kind = "huddle" /\ last.branch = "postcheck"

(* rows of the ledger with the date and skill of associate row aidx *)
SameDateSkill(aidx) ==
    {i \in DOMAIN heatmap_df :
        heatmap_df[i].Date = assoc_df[aidx].Date
        /\ heatmap_df[i].Skill = assoc_df[aidx].Skill}

DirectManagerExclusive ==
    /\ ( /\ last.kind = "candidate" /\ last.branch = "commit"
         /\ RequiresDirect(last.mn) )
       => LET row == assoc_df[last.aidx] IN
          /\ row.Manager # NaN
          /\ last.mgr = row.Manager
          /\ is_manager_available(last.mgr, last.cand, DurationOf(last.mn), row.Date)
    /\ ( /\ last.kind = "one_to_one" /\ last.branch = "commit"
         /\ RequiresDirect(last.mn) )
       => LET row == assoc_df[last.aidx]
              e == scheduled_meetings[last.aidx][Len(scheduled_meetings[last.aidx])]
          IN /\ row.Manager # NaN
             /\ e.manager_id \in ManagerLabels
             /\ ManagerRow(e.manager_id).AA_Name = row.Manager
             /\ ManagerRow(e.manager_id).Working = 1

(* C10: the manager search of a meeting that does not require the direct   *)
(* manager, at every slot the pending iteration may try: a free manager of  *)
(* the associate's site is returned when one exists, otherwise the first    *)
(* free manager of any site, and none only when no manager is free.         *)
AnyManagerSearch ==
    /\ ( /\ variant = "npt" /\ phase = "individual" /\ ai <= Len(assoc_df)
         /\ mi <= Len(meetings) /\ ci >= 1
         /\ ci <= Len(assoc_candidates(assoc_df[ai]))
         /\ meetings[mi].Manager_Availability # "yes" )
       => LET row == assoc_df[ai]
              cand == assoc_candidates(row)[ci]
              d == meetings[mi].Duration
              free == {j \in DOMAIN manager_df :
                          is_manager_available(manager_df[j].AA_Name, cand, d, row.Date)}
              same == {j \in free : manager_df[j].site = row.site}
              r == FirstAvailableManager(cand, d, row.Date)
          IN /\ same # {} => r \in {manager_df[j].AA_Name : j \in same}
             /\ free # {} => r \in {manager_df[j].AA_Name : j \in free}
             /\ r = None => free = {}
    /\ ( /\ variant \in {"ms", "final"} /\ phase = "one_to_one"
         /\ mi <= Len(one_to_one_meetings) /\ assoc_df[ai].Working = 1
         /\ one_to_one_meetings[mi].Manager_Availability # "yes" )
       => LET row == assoc_df[ai]
              d == one_to_one_meetings[mi].Duration
              intervals == get_30min_intervals(row.Shift_start)
          IN \A n \in 3..Len(intervals) :
                LET t == intervals[n]
                    free == {j \in ManagerLabels :
                                IF variant = "ms" THEN ms_is_manager_available(j, t, d)
                                ELSE _is_manager_available(j, t, d)}
                    same == {j \in free : ManagerRow(j).site = row.site}
                    r == IF variant = "ms"
                         THEN _check_manager_availability(row, t, d, FALSE)
                         ELSE _find_available_manager(row, t, d, FALSE)
                IN /\ same # {} => r \in same
                   /\ free # {} => r \in free
                   /\ r = NoManager => free = {}

(* C8: huddle split bounds.  For every shift group of size n >= 1 the     *)
(* number of members of the first-slot sub-group lies in                    *)
(* [floor(0.5 n), ceil(0.6 n)], and the other n - firstCount members are    *)
(* the second-slot sub-group, half an hour later.                           *)
SplitBounds ==
    /\ variant = "npt" =>
          \A g \in DOMAIN shift_group_firsts :
             LET w == GroupHuddleWork(shift_group_firsts[g])
                 n == Len(w)
                 firsts == {k \in DOMAIN w : w[k][3] = 1}
                 seconds == {k \in DOMAIN w : w[k][3] = 2}
             IN n >= 1 =>
                  /\ Cardinality(firsts) >= FloorDiv(n * 5, 10)
                  /\ Cardinality(firsts) <= CeilDiv(n * 6, 10)
                  /\ Cardinality(seconds) = n - Cardinality(firsts)
                  /\ \A k \in firsts, j \in seconds : w[j][2] = w[k][2] + 30
    /\ variant \in {"ms", "final"} =>
          \A k \in DOMAIN team_huddle_stats :
             LET st == team_huddle_stats[k]
                 n == Cardinality(GroupRows(st.key))
                 at(t) == {i \in GroupRows(st.key) :
                              \E e \in DOMAIN scheduled_meetings[i] :
                                 /\ scheduled_meetings[i][e].meeting_time = t
                                 /\ scheduled_meetings[i][e].manager_id = NoManager}
             IN n >= 1 =>
                  /\ st.total = n
                  /\ Cardinality(at(st.key[1])) = st.first
                  /\ st.first >= FloorDiv(n * 5, 10)
                  /\ st.first <= CeilDiv(n * 6, 10)
                  /\ Cardinality(at(st.key[1] + 30)) = n - st.first

(* a group of ten has been through the huddle loop, six of them first *)
SplitOfTen ==
    /\ variant = "npt" /\ phase = "individual" /\ Len(huddle_work) = 10
    /\ Cardinality({i \in DOMAIN assoc_df :
                       /\ "Team_Huddle" \in DOMAIN assoc_schedules[i]
                       /\ HHMM(assoc_schedules[i]["Team_Huddle"])
                             = assoc_df[i].Shift_start}) = 6

(* C11: no manager is paired with two individual assignments of the same    *)
(* date whose spans overlap: a manager who is committed to a meeting is not  *)
(* given another one that overlaps it.                                       *)
ManagerNoOverlap ==
    /\ \A c1, c2 \in DOMAIN commits :
          ( /\ c1 < c2
            /\ Lower(commits[c1].mn) # Lower(team_huddle_name)
            /\ Lower(commits[c2].mn) # Lower(team_huddle_name)
            /\ commits[c1].mgr # None
            /\ commits[c1].mgr = commits[c2].mgr
            /\ assoc_df[commits[c1].aidx].Date = assoc_df[commits[c2].aidx].Date )
          => ~Overlaps(commits[c1].start, commits[c1].start + commits[c1].duration,
                       commits[c2].start, commits[c2].start + commits[c2].duration)
    /\ \A j \in DOMAIN manager_meetings :
          \A e1, e2 \in DOMAIN manager_meetings[j] :
             e1 < e2 =>
                ~Overlaps(manager_meetings[j][e1].meeting_time,
                          manager_meetings[j][e1].meeting_time
                             + manager_meetings[j][e1].duration,
                          manager_meetings[j][e2].meeting_time,
                          manager_meetings[j][e2].meeting_time
                             + manager_meetings[j][e2].duration)

(* C12: every manager paired on a committed assignment is marked working on *)
(* that date, and the whole span of the assignment lies within the shift of *)
(* that manager and outside the manager's break windows, for every meeting  *)
(* type and both values of Manager_Availability.                            *)
PairedManagerOnDuty ==
    /\ \A c \in DOMAIN commits :
          commits[c].mgr # None =>
             LET date_obj == assoc_df[commits[c].aidx].Date
                 s == commits[c].start
                 e == commits[c].start + commits[c].duration
             IN \E j \in DOMAIN manager_df :
                   /\ manager_df[j].AA_Name = commits[c].mgr
                   /\ manager_df[j].Date = date_obj
                   /\ manager_df[j].Working = 1
                   /\ s >= to_datetime_on_date(date_obj, manager_df[j].Shift_start)
                   /\ e <= to_datetime_on_date(date_obj, manager_df[j].Shift_end)
                   /\ \A b \in DOMAIN manager_df[j].breaks :
                         ~Overlaps(s, e,
                                   to_datetime_on_date(date_obj, manager_df[j].breaks[b][1]),
                                   to_datetime_on_date(date_obj, manager_df[j].breaks[b][2]))
    /\ \A j \in DOMAIN manager_meetings :
          \A k \in DOMAIN manager_meetings[j] :
             LET s == manager_meetings[j][k].meeting_time
                 e == s + manager_meetings[j][k].duration
             IN /\ j \in ManagerLabels
                /\ ManagerRow(j).Working = 1
                /\ s >= ManagerRow(j).Shift_start
                /\ e <= ManagerRow(j).Shift_end
                /\ \A b \in DOMAIN ManagerRow(j).breaks :
                      ~Overlaps(s, e, ManagerRow(j).breaks[b][1],
                                ManagerRow(j).breaks[b][2])

(* the working rows that share the date and the shift-start key of row i *)
ShiftPeers(i) ==
    {p \in DOMAIN assoc_df :
        /\ assoc_df[p].Working = 1
        /\ assoc_df[p].Date = assoc_df[i].Date
        /\ ss_key(assoc_df[p]) = ss_key(assoc_df[i])}

(* the rows that hold an assignment of the meeting definition mdef; the    *)
(* meeting_info of meeting_scheduler.py carries the Meeting Type cell       *)
Holders(mdef) ==
    {p \in DOMAIN assoc_df :
        \/ mdef.Meeting_Name \in DOMAIN assoc_schedules[p]
        \/ \E e \in DOMAIN scheduled_meetings[p] :
              scheduled_meetings[p][e].meeting_type =
                 (IF variant = "ms" THEN mdef.Meeting_Type ELSE mdef.Meeting_Name)}

(* C13: weekly quota.  For every date, every shift-start key with n working *)
(* peers on that date and every meeting of weekly frequency, the number of  *)
(* those peers that hold the meeting never exceeds floor(0.25 n).           *)
WeeklyQuota ==
    \A m \in DOMAIN meetings :
       meetings[m].Frequency = "weekly" =>
          \A i \in DOMAIN assoc_df :
             assoc_df[i].Working = 1 =>
                Cardinality(ShiftPeers(i) \cap Holders(meetings[m]))
                   <= FloorDiv(Cardinality(ShiftPeers(i)) * 25, 100)

FrequencyOf(mn) ==
    LET ds == {m \in DOMAIN meetings : meetings[m].Meeting_Name = mn} IN
    meetings[CHOOSE m \in ds : \A k \in ds : m <= k].Frequency

(* C14: eligibility by frequency.  When the loop reaches a working person   *)
(* and a meeting whose frequency is daily, or is none of daily, weekly,     *)
(* monthly, the meeting is attempted for that person: the slot search runs  *)
(* and ends in an assignment or an unscheduled entry.                       *)
DailyAndUnknownAttempted ==
    /\ ( /\ last.kind = "decide"
         /\ Lower(last.mn) # Lower(team_huddle_name)
         /\ FrequencyOf(last.mn) \notin {"weekly", "monthly"} )
       => last.branch = "attempt"
    /\ ( /\ last.kind = "one_to_one"
         /\ FrequencyOf(last.mn) \notin {"weekly", "monthly"} )
       => last.branch \in {"commit", "unscheduled"}

(* C15: no individual (non-huddle) assignment starts earlier than 60       *)
(* minutes after the shift start of its associate: the slot search skips    *)
(* the first two 30-minute slots of the shift.                              *)
FirstHourSkipped ==
    /\ \A i \in DOMAIN assoc_schedules :
          \A mn \in DOMAIN assoc_schedules[i] :
             Lower(mn) # Lower(team_huddle_name) =>
                assoc_schedules[i][mn] >=
                   to_datetime_on_date(assoc_df[i].Date, assoc_df[i].Shift_start)
                      + 2 * HalfHour
    /\ \A i \in DOMAIN scheduled_meetings :
          \A e \in DOMAIN scheduled_meetings[i] :
             ~ContainsTeamHuddle(scheduled_meetings[i][e].meeting_type) =>
                scheduled_meetings[i][e].meeting_time >=
                   assoc_df[i].Shift_start + 2 * HalfHour

(* C16: shift containment.  Every committed assignment, huddle or          *)
(* individual, starts at or after the shift start of its associate and ends *)
(* at or before the shift end, for every meeting duration and every shift   *)
(* start, aligned to the 30-minute grid or not.                             *)
ShiftContainment ==
    /\ \A i \in DOMAIN assoc_schedules :
          \A mn \in DOMAIN assoc_schedules[i] :
             /\ assoc_schedules[i][mn] >=
                   to_datetime_on_date(assoc_df[i].Date, assoc_df[i].Shift_start)
             /\ assoc_schedules[i][mn] + DurationOf(mn) <=
                   to_datetime_on_date(assoc_df[i].Date, assoc_df[i].Shift_end)
    /\ \A i \in DOMAIN scheduled_meetings :
          \A e \in DOMAIN scheduled_meetings[i] :
             /\ scheduled_meetings[i][e].meeting_time >= assoc_df[i].Shift_start
             /\ scheduled_meetings[i][e].meeting_time + scheduled_meetings[i][e].duration
                   <= assoc_df[i].Shift_end

(* C17: candidate list of a working associate.  The starts are strictly    *)
(* ascending, every start is a multiple of 30 minutes, the 30-minute slot   *)
(* of every candidate lies within [shift start, shift end), and the list is *)
(* empty when the shift is shorter than 30 minutes.                         *)
CandidateGrid ==
    \A i \in DOMAIN assoc_df :
       assoc_df[i].Working = 1 =>
          LET c == assoc_candidates(assoc_df[i])
              shiftStart == to_datetime_on_date(assoc_df[i].Date, assoc_df[i].Shift_start)
              shiftEnd == to_datetime_on_date(assoc_df[i].Date, assoc_df[i].Shift_end)
          IN /\ \A k \in 1..(Len(c) - 1) : c[k] < c[k + 1]
             /\ \A k \in DOMAIN c :
                   /\ c[k] % HalfHour = 0
                   /\ c[k] >= shiftStart
                   /\ c[k] + HalfHour <= shiftEnd
             /\ shiftEnd - shiftStart < HalfHour => c = <<>>

(* branches of a slot search at which the associate is not free *)
NotFree == {"shift_end", "break", "conflict", "no_candidate"}

(* the diagnosis of an unscheduled entry, from what stopped its candidates: *)
(* no free slot, no eligible manager, capacity threshold exceeded, or a     *)
(* mixture of the last two (or a missing ledger cell)                       *)
Diagnosis(stopped) ==
    IF stopped \subseteq NotFree THEN "no free slot"
    ELSE IF stopped \subseteq (NotFree \cup {"manager"}) THEN "no eligible manager"
    ELSE IF stopped \subseteq (NotFree \cup {"precheck", "postcheck"})
    THEN "capacity threshold exceeded"
    ELSE "mixed"

ReasonOf(entry) == IF "Reason" \in DOMAIN entry THEN entry.Reason ELSE entry.reason

(* C18: the reason of an unscheduled entry distinguishes no free slot, no   *)
(* eligible manager and capacity threshold exceeded: two entries of a run   *)
(* whose searches were stopped by different ones of these three carry       *)
(* different reasons.                                                       *)
ReasonDistinguishesCause ==
    \A e1, e2 \in DOMAIN unscheduled :
       ( /\ Diagnosis(blocked_by[e1]) # "mixed"
         /\ Diagnosis(blocked_by[e2]) # "mixed"
         /\ Diagnosis(blocked_by[e1]) # Diagnosis(blocked_by[e2]) )
       => ReasonOf(unscheduled[e1]) # ReasonOf(unscheduled[e2])

(* the associate of row aidx is free over the 30-minute slot that starts at *)
(* t: the slot lies in the shift, meets no break and no meeting of the row  *)
FreeAtSlot(aidx, t) ==
    LET row == assoc_df[aidx] IN
    /\ row.Working = 1
    /\ t >= to_datetime_on_date(row.Date, row.Shift_start)
    /\ t + HalfHour <= to_datetime_on_date(row.Date, row.Shift_end)
    /\ ~BreakClash(row, row.Date, t, HalfHour)
    /\ \A mn \in DOMAIN assoc_schedules[aidx] :
          ~Overlaps(t, t + HalfHour, assoc_schedules[aidx][mn],
                    assoc_schedules[aidx][mn] + Max(DurationOf(mn), HalfHour))

(* C19: huddle coverage.  When the huddle loop reaches a working associate  *)
(* who is free at the slot of their sub-group (the first or the second half *)
(* hour of their shift on their date) and the ledger accepts the            *)
(* reservation there, the associate receives the huddle assignment and no   *)
(* unscheduled entry is written.                                            *)
HuddleCoverage ==
    [][ ( /\ variant = "npt" /\ phase = "huddle" /\ hpos <= Len(huddle_work) )
        => LET aidx == huddle_work[hpos][1]
               row == assoc_df[aidx]
               hdef == meetings[team_meet_def]
               slot == to_datetime_on_date(row.Date, row.Shift_start)
                          + (huddle_work[hpos][3] - 1) * HalfHour
               accepts == LedgerStage(heatmap_df, row.Date, slot, row.Skill,
                                      hdef.Duration, hdef.NPT_Threshold).branch = "ok"
           IN ( FreeAtSlot(aidx, slot) /\ accepts )
              => /\ hdef.Meeting_Name \in DOMAIN assoc_schedules'[aidx]
                 /\ unscheduled' = unscheduled ]_vars

(* C20: ledger load.  In every state of the run, between attempts and at   *)
(* the end, the NPT load of each ledger cell is the sum of the durations of *)
(* the committed assignments reserved against that cell (in thirtieths:     *)
(* duration / 30 each), and the revised staffing follows from it; nothing   *)
(* of a rejected or abandoned candidate stays applied.                      *)
LoadIsCommittedSum ==
    \A i \in DOMAIN heatmap_df :
       LET r == heatmap_df[i]
           load == CommittedMinutes(commits, KeyOf(r))
       IN /\ r.NPT_Count = load
          /\ r.Revised_Staffing_heatmap
                = (r.Scheduled * HalfHour - load) - r.Requirement * HalfHour

(* the end of a run in which a cell carries two commits and the ledger has  *)
(* turned down every free slot of another search                            *)
RunEndedAfterRejections ==
    /\ variant = "npt" /\ phase = "done"
    /\ \E i \in DOMAIN heatmap_df :
          /\ heatmap_df[i].NPT_Count > 0
          /\ Cardinality({c \in DOMAIN commits : commits[c].key = KeyOf(heatmap_df[i])}) >= 2
    /\ \E e \in DOMAIN blocked_by : "postcheck" \in blocked_by[e]

(* a working row of the roster lacks its shift start *)
MissingShiftStart ==
    \E i \in DOMAIN assoc_df : assoc_df[i].Working = 1 /\ assoc_df[i].Shift_start = NaT

(* C21: a missing shift time is fatal.  A run whose roster has a working    *)
(* row without a shift start produces no assignment at all: no default      *)
(* (midnight) is put in its place to go on scheduling.                      *)
MissingTimeIsFatal ==
    MissingShiftStart =>
       /\ commits = <<>>
       /\ \A i \in DOMAIN assoc_schedules : DOMAIN assoc_schedules[i] = {}
       /\ \A i \in DOMAIN scheduled_meetings : scheduled_meetings[i] = <<>>


FirstAvailableIn(order, cand, duration_mins, date_obj) ==
    LET ok == {j \in DOMAIN order :
                  is_manager_available(order[j], cand, duration_mins, date_obj)}
    IN IF ok = {} THEN None ELSE order[CHOOSE j \in ok : \A k \in ok : j <= k]

(* the huddle split of the step is the same for every ratio and shuffle *)
SplitIsFixed ==
    LET key == huddle_groups[hpos]
        total_associates == Cardinality(GroupRows(key))
    IN \A ratio \in Ratios, associate_list \in Perms(GroupRows(key)) :
          LET fsc == first_slot_count(total_associates, ratio) IN
          PlaceHuddles(scheduled_meetings, SubSeq(associate_list, 1, fsc),
                       SubSeq(associate_list, fsc + 1, total_associates),
                       team_huddle_meetings, key) = scheduled_meetings'

(* the manager paired by the any-manager search of the step is the same    *)
(* for every iteration order of the manager pool                            *)
PoolOrderIsFixed ==
    LET c == commits'[Len(commits')] IN
    ~c.requires_direct =>
        \A order \in Perms({manager_df[j].AA_Name : j \in DOMAIN manager_df}) :
            FirstAvailableIn(order, c.start, c.duration, assoc_df[c.aidx].Date) = c.mgr

(* the frequency sampling of the step has one outcome *)
SamplingIsFixed ==
    Cardinality(IF variant = "ms"
                THEN ms_should_schedule_meeting(one_to_one_meetings[mi].Frequency)
                ELSE final_should_schedule_meeting(one_to_one_meetings[mi].Frequency)) = 1

(* C23: runs are reproducible. From equal states every step has one         *)
(* outcome: the huddle split does not depend on the drawn ratio or shuffle, *)
(* the paired manager does not depend on the iteration order of the manager *)
(* pool, and the weekly/monthly sampling has a single result, so two runs   *)
(* on the same inputs produce the same assignments, pairings, ledger and    *)
(* unscheduled list.                                                        *)
RunsReproducible ==
    [][/\ last'.kind = "class_huddle" => SplitIsFixed
       /\ (variant = "npt" /\ commits' # commits) => PoolOrderIsFixed
       /\ last'.kind = "one_to_one" => SamplingIsFixed]_vars


(* minutes of the meetings of working rows of the date and skill of a       *)
(* heatmap row that start inside its interval                                *)
RECURSIVE StartingMinutes(_, _)
StartingMinutes(row, ms) ==
    IF ms = <<>> THEN 0
    ELSE (IF /\ assoc_df[Head(ms).associate_id].Working = 1
             /\ assoc_df[Head(ms).associate_id].Date = row.Date
             /\ assoc_df[Head(ms).associate_id].Skill = row.Skill
             /\ Head(ms).meeting_time >= row.Interval
             /\ Head(ms).meeting_time < row.Interval + 30
          THEN Head(ms).duration ELSE 0)
         + StartingMinutes(row, Tail(ms))

(* C24: after update_schedule_heatmap every heatmap row holds, as NPT       *)
(* Count, the sum of duration / 30 over the meetings scheduled for working  *)
(* associates of its date and skill that start in its interval, and as      *)
(* Revised Staffing (Scheduled - NPT Count) - Requirement.                  *)
HeatmapMatchesSchedule ==
    last.kind = "update_heatmap" =>
        /\ phase = "done"
        /\ \A i \in DOMAIN schedule_heatmap :
              LET row == schedule_heatmap[i] IN
              /\ row.NPT_Count = StartingMinutes(row, Flatten(scheduled_meetings))
              /\ row.Revised_Staffing =
                    (row.Scheduled * HalfHour - row.NPT_Count)
                       - row.Requirement * HalfHour


(* the commit of (row, meeting name, start) that a mirrored entry of a      *)
(* manager stands for                                                       *)
MirroredCommits(name, entry) ==
    {c \in DOMAIN commits :
        /\ commits[c].mgr = name
        /\ assoc_df[commits[c].aidx].AA_Name = entry.associate
        /\ assoc_df[commits[c].aidx].Date = entry.date
        /\ commits[c].mn = entry.meeting_name
        /\ commits[c].start = entry.start
        /\ commits[c].duration = entry.duration}

(* C25: manager schedules mirror the assignments. Every committed           *)
(* assignment with a paired manager is in that manager's schedule with the  *)
(* same date, start and duration, and every entry of a manager's schedule   *)
(* stands for exactly one committed assignment with that start.             *)
ManagerMirror ==
    /\ \A c \in DOMAIN commits :
          commits[c].mgr # None =>
             \E e \in DOMAIN manager_schedules[commits[c].mgr] :
                 LET entry == manager_schedules[commits[c].mgr][e] IN
                 /\ entry.date = assoc_df[commits[c].aidx].Date
                 /\ entry.start = commits[c].start
                 /\ entry.duration = commits[c].duration
    /\ \A name \in DOMAIN manager_schedules :
          \A e \in DOMAIN manager_schedules[name] :
              Cardinality(MirroredCommits(name, manager_schedules[name][e])) = 1
    /\ \A p \in DOMAIN scheduled_meetings :
          \A k \in DOMAIN scheduled_meetings[p] :
              LET m == scheduled_meetings[p][k] IN
              m.manager_id # NoManager =>
                 \E e \in DOMAIN manager_meetings[m.manager_id] :
                     manager_meetings[m.manager_id][e] = m
    /\ \A j \in DOMAIN manager_meetings :
          \A e \in DOMAIN manager_meetings[j] :
              /\ manager_meetings[j][e].manager_id = j
              /\ Cardinality({pk \in UNION {{<<p, k>> : k \in DOMAIN scheduled_meetings[p]} :
                                                p \in DOMAIN scheduled_meetings} :
                                 scheduled_meetings[pk[1]][pk[2]]
                                    = manager_meetings[j][e]}) = 1

(* a manager holds the mirrors of two assignments *)
ManagerHoldsTwo ==
    \/ \E name \in DOMAIN manager_schedules : Len(manager_schedules[name]) >= 2
    \/ \E j \in DOMAIN manager_meetings : Len(manager_meetings[j]) >= 2


(* the intervals _schedule_individual_meeting walks for an associate *)
SearchedIntervals(associate) ==
    LET intervals == get_30min_intervals(associate.Shift_start)
    IN SubSeq(intervals, 3, Len(intervals))

(* an interval passes the break, own-meeting and manager checks of the      *)
(* class based schedulers                                                   *)
IntervalPasses(associate_idx, interval, mdef) ==
    LET associate == assoc_df[associate_idx]
        requires_direct_manager == mdef.Manager_Availability = "yes"
    IN /\ ~is_time_conflicting(associate, interval, mdef.Duration)
       /\ ~_has_meeting_conflict(associate_idx, interval, mdef.Duration)
       /\ (IF variant = "ms"
           THEN _check_manager_availability(associate, interval, mdef.Duration,
                                            requires_direct_manager)
           ELSE _find_available_manager(associate, interval, mdef.Duration,
                                        requires_direct_manager)) # NoManager

(* s is t, or t with one element appended *)
GrowsByAtMostOne(s, t) ==
    /\ Len(t) \in {Len(s), Len(s) + 1}
    /\ SubSeq(t, 1, Len(s)) = s

(* C26: first fit. The slot committed for an attempted (person, meeting)    *)
(* pair is the earliest candidate, in ascending start order, that passes    *)
(* the checks in the state of the attempt; a step commits at most one       *)
(* assignment, for a pair that has none, and leaves the earlier commits as  *)
(* they were.                                                               *)
FirstFit ==
    [][/\ (variant = "npt" /\ last'.kind = "candidate" /\ last'.branch = "commit") =>
            LET cs == assoc_candidates(assoc_df[ai]) IN
            /\ \A n \in DOMAIN cs :
                  CandidateOutcome(ai, meetings[mi], cs[n]).branch = "commit"
                     => (last'.cand <= cs[n] /\ n >= ci)
            /\ \A n \in DOMAIN cs : n < Len(cs) => cs[n] < cs[n + 1]
            /\ ~\E c \in DOMAIN commits :
                  commits[c].aidx = ai /\ commits[c].mn = meetings[mi].Meeting_Name
       /\ (variant # "npt" /\ last'.kind = "one_to_one" /\ last'.branch = "commit") =>
            LET cs == SearchedIntervals(assoc_df[ai]) IN
            /\ IntervalPasses(ai, last'.cand, one_to_one_meetings[mi])
            /\ \A n \in DOMAIN cs :
                  IntervalPasses(ai, cs[n], one_to_one_meetings[mi])
                     => last'.cand <= cs[n]
            /\ \A n \in DOMAIN cs : n < Len(cs) => cs[n] < cs[n + 1]
       /\ GrowsByAtMostOne(commits, commits')
       /\ \A p \in DOMAIN scheduled_meetings :
             \/ GrowsByAtMostOne(scheduled_meetings[p], scheduled_meetings'[p])
             \/ last'.kind = "class_huddle"
       /\ \A p \in DOMAIN assoc_schedules :
             \A mn \in DOMAIN assoc_schedules[p] :
                 /\ mn \in DOMAIN assoc_schedules'[p]
                 /\ assoc_schedules'[p][mn] = assoc_schedules[p][mn]]_vars


(* the huddle commits of a roster row *)
HuddleCommits(aidx) ==
    {c \in DOMAIN commits :
        commits[c].aidx = aidx /\ Lower(commits[c].mn) = Lower(team_huddle_name)}

(* the unscheduled huddle entries of a roster row *)
HuddleFailures(aidx) ==
    {u \in DOMAIN unscheduled :
        /\ unscheduled[u].AA_Name = assoc_df[aidx].AA_Name
        /\ unscheduled[u].Date = assoc_df[aidx].Date
        /\ Lower(unscheduled[u].Meeting_Name) = Lower(team_huddle_name)}

(* C27: the two huddle sub-groups. Every member of a huddle group is in     *)
(* exactly one sub-group; a committed huddle starts at the member's shift   *)
(* start in the first sub-group and 30 minutes after it in the second; a    *)
(* member whose slot fails has one unscheduled entry and no huddle.         *)
HuddleSubGroups ==
    /\ (variant = "npt" /\ team_meet_def # 0) =>
          /\ \A i \in DOMAIN assoc_df :
                (assoc_df[i].Working = 1 /\ assoc_df[i].AA_Name \notin ManagerNames) =>
                   Cardinality({h \in DOMAIN huddle_work : huddle_work[h][1] = i}) = 1
          /\ \A h \in DOMAIN huddle_work :
                LET aidx == huddle_work[h][1]
                    shift_start_dt == to_datetime_on_date(assoc_df[aidx].Date,
                                                          assoc_df[aidx].Shift_start)
                IN /\ huddle_work[h][3] \in {1, 2}
                   /\ \A c \in HuddleCommits(aidx) :
                         commits[c].start =
                            shift_start_dt + (IF huddle_work[h][3] = 1 THEN 0 ELSE 30)
                   /\ h < hpos =>
                         \/ /\ Cardinality(HuddleCommits(aidx)) = 1
                            /\ HuddleFailures(aidx) = {}
                         \/ /\ HuddleCommits(aidx) = {}
                            /\ Cardinality(HuddleFailures(aidx)) = 1
                   /\ h >= hpos => (HuddleCommits(aidx) = {} /\ HuddleFailures(aidx) = {})
    /\ variant \in {"ms", "final"} =>
          \A p \in DOMAIN scheduled_meetings :
              \A e \in DOMAIN scheduled_meetings[p] :
                  scheduled_meetings[p][e].manager_id = NoManager =>
                     scheduled_meetings[p][e].meeting_time
                        \in {assoc_df[p].Shift_start, assoc_df[p].Shift_start + 30}


(* the half-open intervals [s1, e1) and [s2, e2) have a common point *)
Intersects(s1, e1, s2, e2) ==
    (IF s1 > s2 THEN s1 ELSE s2) < (IF e1 < e2 THEN e1 ELSE e2)

(* the 30 minute marks of a date *)
GridMarks(date_val) == {date_val * DayMinutes + 30 * k : k \in 0..47}

(* C28: candidates are the slots clear of breaks. For a working row, a      *)
(* 30 minute grid slot [t, t + 30) inside the shift is in the candidate     *)
(* list exactly when it intersects none of the row's break windows taken as *)
(* half-open intervals [start, end).                                        *)
CandidateIffClearOfBreaks ==
    \A i \in DOMAIN assoc_df :
        LET row == assoc_df[i] IN
        (row.Working = 1 /\ row.Shift_start # NaT) =>
            \A t \in GridMarks(row.Date) :
                ( /\ t >= to_datetime_on_date(row.Date, row.Shift_start)
                  /\ t + 30 <= to_datetime_on_date(row.Date, row.Shift_end) ) =>
                    ( t \in Range(assoc_candidates(row))
                      <=> \A b \in DOMAIN row.breaks :
                             ~Intersects(t, t + 30,
                                         to_datetime_on_date(row.Date, row.breaks[b][1]),
                                         to_datetime_on_date(row.Date, row.breaks[b][2])) )


(* assignments and unscheduled entries of (row a, meeting name mn) in       *)
(* npt_scheduler.py                                                          *)
PairAssigned(a, mn) ==
    Cardinality({c \in DOMAIN commits : commits[c].aidx = a /\ commits[c].mn = mn})

PairUnscheduled(a, mn) ==
    Cardinality({u \in DOMAIN unscheduled :
                    /\ unscheduled[u].AA_Name = assoc_df[a].AA_Name
                    /\ unscheduled[u].Date = assoc_df[a].Date
                    /\ unscheduled[u].Meeting_Name = mn})

PairOutcomes(a, mn) == PairAssigned(a, mn) + PairUnscheduled(a, mn)

(* lexicographic order of loop positions *)
PositionBefore(p, q) ==
    \/ p[1] < q[1]
    \/ p[1] = q[1] /\ p[2] < q[2]
    \/ p[1] = q[1] /\ p[2] = q[2] /\ p[3] < q[3]

RunEnded == phase \in {"done", "failed"}

(* one step of the loops over (person, meeting) pairs: outcomes change only *)
(* for the pair under attempt, from none to exactly one; a pair that is not *)
(* attempted gets none; the loops never go back to a pair                   *)
PairStep ==
    /\ (variant = "npt" /\ phase = "individual") =>
          /\ \A a \in DOMAIN assoc_df, m \in DOMAIN meetings :
                LET mn == meetings[m].Meeting_Name IN
                Lower(mn) # Lower(team_huddle_name) =>
                   /\ ( \/ PairAssigned(a, mn)' # PairAssigned(a, mn)
                        \/ PairUnscheduled(a, mn)' # PairUnscheduled(a, mn) ) =>
                           /\ a = ai /\ m = mi /\ ci >= 1
                           /\ PairOutcomes(a, mn) = 0
                           /\ PairOutcomes(a, mn)' = 1
                   /\ (a = ai /\ m = mi /\ ci >= 1 /\ ci' = 0) => PairOutcomes(a, mn)' = 1
                   /\ (a = ai /\ m = mi /\ last'.kind = "decide"
                          /\ last'.branch = "not_attempted") =>
                         (PairOutcomes(a, mn)' = 0 /\ mi' = mi + 1)
          /\ PositionBefore(<<ai, mi, ci>>, <<ai', mi', ci'>>)
    /\ (variant \in {"ms", "final"} /\ phase = "one_to_one"
           /\ last'.kind \in {"skip", "one_to_one"}) =>
          LET added == Len(scheduled_meetings'[ai]) - Len(scheduled_meetings[ai])
              failed == Len(unscheduled') - Len(unscheduled)
          IN /\ last'.branch = "commit" => (added = 1 /\ failed = 0)
             /\ last'.branch = "unscheduled" => (added = 0 /\ failed = 1)
             /\ last'.branch \notin {"commit", "unscheduled"} => (added = 0 /\ failed = 0)
             /\ \A p \in DOMAIN scheduled_meetings :
                   p # ai => scheduled_meetings'[p] = scheduled_meetings[p]
             /\ PositionBefore(<<mi, ai, 0>>, <<mi', ai', 0>>)

(* C29: the run terminates, and every attempted (working person, eligible  *)
(* non-huddle meeting) pair ends with exactly one outcome, an assignment or *)
(* an unscheduled entry and never both, while a pair skipped by the         *)
(* frequency policy has neither.                                            *)
OneOutcomePerPair ==
    /\ <>RunEnded
    /\ variant # "ms" => <>(phase = "done")
    /\ [][PairStep]_vars

(* the run has ended with an assignment, an unscheduled entry and a pair    *)
(* that the frequency policy skipped                                        *)
EndedWithEveryOutcome ==
    /\ variant = "npt" /\ phase = "done"
    /\ \E a \in DOMAIN assoc_df, m \in DOMAIN meetings :
          PairAssigned(a, meetings[m].Meeting_Name) = 1
          /\ Lower(meetings[m].Meeting_Name) # Lower(team_huddle_name)
    /\ \E a \in DOMAIN assoc_df, m \in DOMAIN meetings :
          PairUnscheduled(a, meetings[m].Meeting_Name) = 1
          /\ Lower(meetings[m].Meeting_Name) # Lower(team_huddle_name)
    /\ \E a \in DOMAIN assoc_df, m \in DOMAIN meetings :
          /\ assoc_df[a].Working = 1
          /\ Lower(meetings[m].Meeting_Name) # Lower(team_huddle_name)
          /\ PairOutcomes(a, meetings[m].Meeting_Name) = 0


(* outcomes recorded for roster row a: assignments and unscheduled entries *)
RowAssignments(a) ==
    IF variant = "npt"
    THEN Cardinality(DOMAIN assoc_schedules[a])
         + Cardinality({c \in DOMAIN commits : commits[c].aidx = a})
    ELSE Len(scheduled_meetings[a])

RowUnscheduled(a) ==
    IF variant = "npt"
    THEN Cardinality({u \in DOMAIN unscheduled :
                         /\ unscheduled[u].AA_Name = assoc_df[a].AA_Name
                         /\ unscheduled[u].Date = assoc_df[a].Date})
    ELSE Cardinality({u \in DOMAIN unscheduled : unscheduled[u].associate_id = a})

(* C30: a person whose working flag is not 1 has an empty candidate list    *)
(* and never has an assignment or an unscheduled entry, for the huddle or   *)
(* for an individual meeting.                                               *)
NonWorkingUntouched ==
    \A a \in DOMAIN assoc_df :
        assoc_df[a].Working # 1 =>
            /\ variant = "npt" => assoc_candidates(assoc_df[a]) = <<>>
            /\ RowAssignments(a) = 0
            /\ RowUnscheduled(a) = 0

(* a finished run with a row that is not working next to rows that got an  *)
(* assignment and an unscheduled entry                                      *)
NonWorkingPassedOver ==
    /\ phase = "done"
    /\ \E a \in DOMAIN assoc_df : assoc_df[a].Working # 1
    /\ \E a \in DOMAIN assoc_df : RowAssignments(a) > 0
    /\ \E a \in DOMAIN assoc_df : RowUnscheduled(a) > 0


(* what the huddle phase has recorded for roster row a *)
HuddleRecord(a) ==
    IF variant = "npt"
    THEN {<<mn, assoc_schedules[a][mn]>> :
             mn \in {n \in DOMAIN assoc_schedules[a] : Lower(n) = Lower(team_huddle_name)}}
    ELSE {<<k, scheduled_meetings[a][k]>> :
             k \in {i \in DOMAIN scheduled_meetings[a] :
                       ~HasWorkgroup(scheduled_meetings[a][i])}}

(* every group of the huddle loop has been attempted *)
HuddleLoopOver ==
    IF variant = "npt" THEN hpos > Len(huddle_work)
    ELSE team_huddle_meetings = <<>> \/ hpos > Len(huddle_groups)

(* one step seen from the order of the two phases *)
HuddlesFirstStep ==
    /\ last'.kind \in {"huddle", "class_huddle"} => phase = "huddle"
    /\ last'.kind \in {"next_row", "decide", "candidate", "unscheduled", "skip",
                       "one_to_one"} =>
          /\ phase # "huddle" /\ HuddleLoopOver
          /\ \A a \in DOMAIN assoc_df : HuddleRecord(a)' = HuddleRecord(a)
          /\ team_huddle_stats' = team_huddle_stats
    /\ phase # "huddle" => phase' # "huddle"

(* C31: all huddle attempts of all groups are over before the first         *)
(* individual-meeting attempt, and no later step adds, moves or removes a   *)
(* huddle, so every check of the individual phase sees all huddles and the  *)
(* load they put on the ledger.                                             *)
HuddlesFirst ==
    /\ [](phase # "huddle" => HuddleLoopOver)
    /\ [][HuddlesFirstStep]_vars

(* an individual meeting is committed for a row that holds a huddle *)
IndividualAfterHuddle ==
    /\ last.kind \in {"candidate", "one_to_one"} /\ last.branch = "commit"
    /\ HuddleRecord(last.aidx) # {}
    /\ \E a \in DOMAIN assoc_df : a # last.aidx /\ HuddleRecord(a) # {}


(* s is an initial part of t *)
IsPrefix(s, t) == Len(s) <= Len(t) /\ SubSeq(t, 1, Len(s)) = s

(* one step leaves every assignment and every unscheduled entry as it was *)
StoresOnlyGrow ==
    /\ \A a \in DOMAIN assoc_df :
          /\ \A mn \in DOMAIN assoc_schedules[a] :
                /\ mn \in DOMAIN assoc_schedules'[a]
                /\ assoc_schedules'[a][mn] = assoc_schedules[a][mn]
          /\ IsPrefix(scheduled_meetings[a], scheduled_meetings'[a])
    /\ IsPrefix(unscheduled, unscheduled')

(* C32: an assignment, once committed, is never changed or removed for the  *)
(* rest of the run, whatever the list of meeting definitions, and the       *)
(* unscheduled list only grows by appended entries.                         *)
AssignmentsAppendOnly == [][StoresOnlyGrow]_vars


(* C33: in every reachable state each row of the ledger stores              *)
(* Revised_Staffing_heatmap = (Scheduled - NPT_Count) - Requirement, after  *)
(* every add and every rollback; the sheet the class based scripts write at *)
(* the end of a completed run satisfies the same equation.                  *)
RevisedStaffingCurrent ==
    /\ \A i \in DOMAIN heatmap_df :
          heatmap_df[i].Revised_Staffing_heatmap
             = (heatmap_df[i].Scheduled * HalfHour - heatmap_df[i].NPT_Count)
               - heatmap_df[i].Requirement * HalfHour
    /\ phase = "done" =>
          \A i \in DOMAIN schedule_heatmap :
             schedule_heatmap[i].Revised_Staffing
                = (schedule_heatmap[i].Scheduled * HalfHour - schedule_heatmap[i].NPT_Count)
                  - schedule_heatmap[i].Requirement * HalfHour

(* a reservation has just been rolled back on a ledger that carries the     *)
(* load of an earlier commit                                                *)
RolledBackOnLoadedLedger ==
    /\ variant = "npt"
    /\ last.kind \in {"huddle", "candidate"} /\ last.branch = "postcheck"
    /\ \E i \in DOMAIN heatmap_df : heatmap_df[i].NPT_Count > 0


(* the attempts that the reservations accept when they run whole, one after *)
(* the other in the given order, on the ledger hm                           *)
RECURSIVE SerialAccepted(_, _)
SerialAccepted(order, hm) ==
    IF order = <<>> THEN {}
    ELSE LET t == Head(order)
             r == TryReserve(hm, KeyOf(LedgerCell), reservations.att[t].duration,
                             reservations.att[t].threshold)
         IN (IF r.branch = "ok" THEN {t} ELSE {}) \cup SerialAccepted(Tail(order), r.hm)

AcceptedInEverySerialOrder(t) ==
    \A order \in Perms(DOMAIN reservations.att) : t \in SerialAccepted(order, <<LedgerCell>>)

(* the value an attempt reads holds the committed load and its own minutes  *)
(* only                                                                     *)
ReadsOwnLoadOnly(a) ==
    /\ a.foreign = 0
    /\ a.new_val = (LedgerCell.Scheduled * HalfHour - (a.base + a.duration))
                   - LedgerCell.Requirement * HalfHour

(* C34: when the apply, check and commit-or-revert steps of the             *)
(* reservations on a ledger key run one attempt at a time, no attempt reads *)
(* another attempt's provisional load; an attempt that is rejected although *)
(* every serial order accepts it has run interleaved with another attempt   *)
(* and has read that attempt's provisional load.                            *)
PerKeySerialization ==
    \A t \in DOMAIN reservations.att :
        LET a == reservations.att[t] IN
        /\ (reservations.mode = "serial" /\ a.pc = "settle") => ReadsOwnLoadOnly(a)
        /\ (reservations.mode = "serial" /\ a.pc = "done" /\ a.result = "accepted") =>
              ReadsOwnLoadOnly(a)
        /\ (a.pc = "done" /\ a.result = "rejected" /\ AcceptedInEverySerialOrder(t)) =>
              (reservations.mode = "interleaved" /\ a.foreign > 0)

(* interleaved with another attempt on the same key, an attempt that every  *)
(* serial order accepts has read the other's provisional load and has been  *)
(* rejected                                                                 *)
RejectedByProvisionalLoad ==
    /\ reservations.mode = "interleaved"
    /\ \E t \in DOMAIN reservations.att :
          /\ reservations.att[t].pc = "done" /\ reservations.att[t].result = "rejected"
          /\ reservations.att[t].foreign > 0
          /\ AcceptedInEverySerialOrder(t)


(* the assignment store, the manager schedules and the ledger *)
Stores ==
    <<assoc_schedules, manager_schedules, commits, scheduled_meetings, manager_meetings,
      heatmap_df, schedule_heatmap>>

CheckedTimes == {540, 570, 600, 630}

(* the answers of the availability checks for a range of arguments *)
CheckAnswers ==
    [m \in Range(manager_list) \cup {"nan"}, t \in CheckedTimes, d \in CheckedDurations |->
        is_manager_available(m, DayMinutes + t, d, 1)]

ClassCheckAnswers ==
    [j \in ManagerLabels \cup {NoManager}, a \in DOMAIN assoc_df, t \in CheckedTimes,
     d \in CheckedDurations |->
        <<ms_is_manager_available(j, t, d), _is_manager_available(j, t, d),
          _has_meeting_conflict(a, t, d), is_time_conflicting(assoc_df[a], t, d)>>]

(* one step seen from the availability checks: a candidate or a search that *)
(* the checks gave up leaves the stores as they were, and as long as        *)
(* nothing is committed the checks keep their answers                       *)
ChecksStep ==
    /\ (last'.kind = "candidate"
           /\ last'.branch \in {"shift_end", "break", "conflict", "manager"}) =>
          UNCHANGED Stores
    /\ (last'.kind = "huddle" /\ last'.branch \in {"conflict", "no_candidate"}) =>
          UNCHANGED Stores
    /\ (last'.kind = "one_to_one" /\ last'.branch \in {"unscheduled", "not_attempted"}) =>
          UNCHANGED Stores
    /\ UNCHANGED Stores =>
          /\ CheckAnswers' = CheckAnswers
          /\ variant # "npt" => ClassCheckAnswers' = ClassCheckAnswers

TakeableIntervals(associate_idx, mdef) ==
    LET cs == SearchedIntervals(assoc_df[associate_idx])
    IN {n \in DOMAIN cs :
           /\ ~is_time_conflicting(assoc_df[associate_idx], cs[n], mdef.Duration)
           /\ ~_has_meeting_conflict(associate_idx, cs[n], mdef.Duration)
           /\ \E j \in ManagerLabels : ms_is_manager_available(j, cs[n], mdef.Duration)}

AnyManagerStep ==
    (/\ variant = "ms" /\ last'.kind = "one_to_one"
     /\ last'.branch \in {"commit", "unscheduled"}
     /\ one_to_one_meetings[mi].Manager_Availability # "yes") =>
        LET cs == SearchedIntervals(assoc_df[ai])
            ok == TakeableIntervals(ai, one_to_one_meetings[mi])
        IN ok # {} =>
              /\ last'.branch = "commit"
              /\ \E n \in ok : /\ last'.cand = cs[n]
                               /\ \A k \in ok : n <= k

(* C36: in meeting_scheduler.py a meeting that does not require the direct  *)
(* manager is taken by any available manager of the roster, the first row   *)
(* included: if at some interval the associate passes the break and         *)
(* conflict checks and at least one manager is available,                   *)
(* _schedule_individual_meeting commits at the earliest such interval.      *)
AnyManagerTakes == [][AnyManagerStep]_vars


IsGroupType(mdef) == Lower(mdef.Meeting_Type) = "group meeting"

(* no manager of manager_list is available for the span at cand *)
NoManagerAvailable(cand, mdef, date_obj) ==
    FirstAvailableManager(cand, mdef.Duration, date_obj) = None

(* the step appends exactly one pairing, to the schedule of manager m *)
PairedWith(m) ==
    /\ m \in DOMAIN manager_schedules
    /\ Len(manager_schedules'[m]) = Len(manager_schedules[m]) + 1
    /\ \A o \in DOMAIN manager_schedules \ {m} :
          manager_schedules'[o] = manager_schedules[o]

ManagerPairingStep ==
    /\ (variant = "npt" /\ last'.kind = "candidate" /\ ~IsGroupType(meetings[mi])) =>
          LET row == assoc_df[ai] IN
          /\ last'.branch = "commit" =>
                /\ last'.mgr # None
                /\ is_manager_available(last'.mgr, last'.cand, meetings[mi].Duration, row.Date)
                /\ PairedWith(last'.mgr)
          /\ NoManagerAvailable(last'.cand, meetings[mi], row.Date) =>
                /\ last'.branch # "commit"
                /\ UNCHANGED <<assoc_schedules, manager_schedules, commits>>
    /\ (variant = "npt" /\ last'.kind = "candidate" /\ last'.branch = "commit"
           /\ IsGroupType(meetings[mi])
           /\ NoManagerAvailable(last'.cand, meetings[mi], assoc_df[ai].Date)) =>
          /\ last'.mgr = None
          /\ UNCHANGED manager_schedules
    /\ (variant = "npt" /\ last'.kind = "huddle" /\ last'.branch = "commit"
           /\ NoManagerAvailable(last'.cand, meetings[team_meet_def],
                                 assoc_df[last'.aidx].Date)) =>
          /\ last'.mgr = None
          /\ UNCHANGED manager_schedules

(* C37: in npt_scheduler.py a non-group meeting is never committed without  *)
(* a paired manager: a candidate at which no manager is available is        *)
(* skipped; a group-type meeting and a huddle are committed even when no    *)
(* manager is available and then carry no manager pairing.                  *)
NonGroupNeedsManager == [][ManagerPairingStep]_vars


(* A second weekly definition, and rosters in which a name has rows on two  *)
(* dates                                                                    *)
WeeklyCoaching ==
    [Meeting_Name |-> "Weekly_Coaching", Frequency |-> "weekly",
     Meeting_Type |-> "One-2-One", Manager_Availability |-> "no",
     Duration |-> 30, NPT_Threshold |-> 0]

WeeklyRosters ==
    LET rows == {[AssocRow(i, <<>>, 1, "TM1") EXCEPT !.Date = d] :
                    i \in 1..NumAssoc, d \in RosterDates}
    IN {f \in UNION {[1..n -> rows] : n \in 2..MaxDatedRows} :
           f[1] = AssocRow(1, <<>>, 1, "TM1")}

InitWeekly ==
    /\ variant = "final"
    /\ assoc_df \in WeeklyRosters
    /\ manager_df \in {r \in ManagerRosters : r[1].site = "S1" /\ r[1].Working = 1}
    /\ meetings \in {<<Huddle(15), WeeklyReview, WeeklyCoaching>>,
                     <<Huddle(15), WeeklyReview, OneToOne>>}
    /\ heatmap_df = [i \in DOMAIN SlotStarts |->
                       HeatRow(IntervalStr(SlotStarts[i]), "S1", 5, 2)]
    /\ manager_list = [j \in DOMAIN manager_df |-> manager_df[j].AA_Name]
    /\ InitRun
    /\ reservations = NoReservations

NextFinal ==
    \/ schedule_team_huddles
    \/ HuddlesDone
    \/ OneToOneSkip
    \/ final_one_to_one
    \/ OneToOneDone
    \/ update_schedule_heatmap

SpecWeekly == InitWeekly /\ [][NextFinal]_vars

IsWeeklyName(n) ==
    \E i \in DOMAIN meetings :
        meetings[i].Meeting_Name = n /\ meetings[i].Frequency = "weekly"

(* the weekly-frequency meetings held by the rows named name *)
WeeklyMeetingsOf(name) ==
    {<<p, k>> \in (DOMAIN scheduled_meetings) \X (1..(2 * Len(meetings))) :
        /\ k \in DOMAIN scheduled_meetings[p]
        /\ assoc_df[p].AA_Name = name
        /\ IsWeeklyName(scheduled_meetings[p][k].meeting_type)}

WeeklyAtMostOnce ==
    variant = "final" =>
        \A i \in DOMAIN assoc_df :
            /\ Cardinality(WeeklyMeetingsOf(assoc_df[i].AA_Name)) <= 1
            /\ assoc_df[i].AA_Name \in weekly_scheduled_associates
                  <=> WeeklyMeetingsOf(assoc_df[i].AA_Name) # {}

(* a weekly attempt for a name that already holds a weekly meeting is a skip *)
WeeklySkipStep ==
    (/\ variant = "final" /\ phase = "one_to_one" /\ mi <= Len(one_to_one_meetings)
     /\ one_to_one_meetings[mi].Frequency = "weekly"
     /\ WeeklyMeetingsOf(assoc_df[ai].AA_Name) # {}) =>
        /\ last'.kind = "skip"
        /\ UNCHANGED <<scheduled_meetings, manager_meetings, unscheduled,
                       weekly_scheduled_associates>>

(* C38: in meeting_scheduler_final.py an associate name that has been given *)
(* a weekly-frequency meeting is skipped in every later weekly-frequency    *)
(* attempt, so each name receives at most one weekly-frequency meeting over *)
(* the whole run, across all dates and all weekly meeting definitions.      *)
OneWeeklyPerName == []WeeklyAtMostOnce /\ [][WeeklySkipStep]_vars

(* the run has ended after passing over a second date and a second weekly   *)
(* definition for a name that holds its weekly meeting                      *)
WeeklySkippedOnOtherRows ==
    /\ variant = "final" /\ phase = "done"
    /\ \E i, j \in DOMAIN assoc_df :
          /\ i # j /\ assoc_df[i].AA_Name = assoc_df[j].AA_Name
          /\ assoc_df[i].Date # assoc_df[j].Date
          /\ Cardinality(WeeklyMeetingsOf(assoc_df[i].AA_Name)) = 1
    /\ Cardinality({i \in DOMAIN meetings : meetings[i].Frequency = "weekly"}) = 2

====
